---- MODULE Spec2Model ----
(***************************************************************************)
(* Model of the supply-chain planning engine:                              *)
(*   computation.js   (matrix algebra on nested objects)                   *)
(*   data-objects.js  (createMatrix, getVariations, crossCut, filter, rip, *)
(*                     remove)                                             *)
(*   stats.js         (calc, calc_average, calc_stdDev)                    *)
(*   mfg-planning.js  (generateHorizontalPlan, calculateAggRequirements,   *)
(*                     calculateRYG)                                       *)
(*                                                                         *)
(* JavaScript objects are modelled as insertion-ordered maps: a record     *)
(* [keys, val] where keys is the Object.keys order and val the mapping.    *)
(* All keys of the model are non-numeric strings, for which Object.keys    *)
(* returns insertion order.  JavaScript numbers are modelled as exact      *)
(* rationals extended with NaN, +Infinity, -Infinity and undefined.        *)
(***************************************************************************)
EXTENDS Integers, Sequences, FiniteSets, TLC

(***************************************************************************)
(* JavaScript values.                                                      *)
(***************************************************************************)
Abs(n) == IF n < 0 THEN -n ELSE n

RECURSIVE Gcd(_, _)
Gcd(a, b) == IF b = 0 THEN a ELSE Gcd(b, a % b)

\* The rational n/d (d # 0) in lowest terms with a positive denominator.
Frac(n, d) ==
    LET g == Gcd(Abs(n), Abs(d))
        s == IF d < 0 THEN -1 ELSE 1
    IN  [k |-> "num", n |-> (s * n) \div g, d |-> (s * d) \div g]

Num(n) == [k |-> "num", n |-> n, d |-> 1]
NaN == [k |-> "nan", n |-> 0, d |-> 0]
PosInf == [k |-> "inf", n |-> 1, d |-> 0]
NegInf == [k |-> "inf", n |-> -1, d |-> 0]
Undefined == [k |-> "undef", n |-> 0, d |-> 0]

Sign(n) == IF n > 0 THEN 1 ELSE IF n < 0 THEN -1 ELSE 0
Inf(s) == IF s > 0 THEN PosInf ELSE NegInf

IsNum(v) == v.k = "num"
IsNaNLike(v) == v.k \in {"nan", "undef"}

\* a + b
JsAdd(a, b) ==
    IF IsNaNLike(a) \/ IsNaNLike(b) THEN NaN
    ELSE IF a.k = "inf" /\ b.k = "inf" THEN (IF a.n = b.n THEN a ELSE NaN)
    ELSE IF a.k = "inf" THEN a
    ELSE IF b.k = "inf" THEN b
    ELSE Frac(a.n * b.d + b.n * a.d, a.d * b.d)

\* -a
JsNeg(a) == IF IsNaNLike(a) THEN NaN ELSE [a EXCEPT !.n = -a.n]

\* a - b
JsSub(a, b) == JsAdd(a, JsNeg(b))

\* a * b
JsMul(a, b) ==
    IF IsNaNLike(a) \/ IsNaNLike(b) THEN NaN
    ELSE IF a.k = "inf" \/ b.k = "inf"
         THEN (IF a.n = 0 \/ b.n = 0 THEN NaN ELSE Inf(Sign(a.n) * Sign(b.n)))
    ELSE Frac(a.n * b.n, a.d * b.d)

\* a / b
JsDiv(a, b) ==
    IF IsNaNLike(a) \/ IsNaNLike(b) THEN NaN
    ELSE IF a.k = "inf" THEN (IF b.k = "inf" THEN NaN
                              ELSE Inf(a.n * (IF b.n < 0 THEN -1 ELSE 1)))
    ELSE IF b.k = "inf" THEN Num(0)
    ELSE IF b.n = 0 THEN (IF a.n = 0 THEN NaN ELSE Inf(Sign(a.n)))
    ELSE Frac(a.n * b.d, a.d * b.n)

\* a < b
JsLt(a, b) ==
    IF IsNaNLike(a) \/ IsNaNLike(b) THEN FALSE
    ELSE IF a.k = "inf" \/ b.k = "inf"
         THEN (IF a.k = "inf" /\ b.k = "inf" THEN a.n < b.n
               ELSE IF a.k = "inf" THEN a.n < 0
               ELSE b.n > 0)
    ELSE a.n * b.d < b.n * a.d

\* a > b
JsGt(a, b) == JsLt(b, a)

\* Math.round(a): the nearest integer, halves rounded up.
JsRound(a) ==
    IF IsNaNLike(a) THEN NaN
    ELSE IF a.k = "inf" THEN a
    ELSE Num((2 * a.n + a.d) \div (2 * a.d))

(***************************************************************************)
(* JavaScript objects as insertion-ordered maps.                           *)
(***************************************************************************)
ToSet(s) == {s[i] : i \in 1..Len(s)}

EmptyObj == [keys |-> <<>>, val |-> [x \in {} |-> Undefined]]

\* Object.keys(o)
Keys(o) == o.keys

\* The element of a set of one element.  A loop of the code is a recursion that
\* takes the state after the iterations before from such a set, so that it is
\* computed once per iteration, as the loop does.
The(S) == CHOOSE x \in S : TRUE

\* o.hasOwnProperty(key)
Has(o, key) == key \in DOMAIN o.val

\* o[key] for an own property.
Get(o, key) == o.val[key]

\* o[key] = v: a new key is appended to the key order, an old one keeps its place.
Put(o, key, v) ==
    [keys |-> IF Has(o, key) THEN o.keys ELSE Append(o.keys, key),
     val  |-> [x \in (DOMAIN o.val) \cup {key} |-> IF x = key THEN v ELSE o.val[x]]]

\* The object with the given key order and the given values, a function on
\* the keys.
MkObj(keys, val) == [keys |-> keys, val |-> val]

\* A numeric cell m[r][c]; a missing property reads as undefined.
Cell(m, r, c) ==
    IF Has(m, r) /\ Has(Get(m, r), c) THEN Get(Get(m, r), c) ELSE Undefined

(***************************************************************************)
(* computation.js: matrix algebra.  A call either returns a matrix or      *)
(* throws; a thrown error is recorded by its kind.                         *)
(***************************************************************************)
Ok(m) == [err |-> "none", value |-> m]
Throw(kind) == [err |-> kind, value |-> EmptyObj]

\* Error("Invalid matrix dimensions for ...") thrown by the explicit checks.
DimensionError == "DimensionError"
\* TypeError raised by the runtime: Object.keys(undefined), or a property
\* read on undefined.
TypeError == "TypeError"

\* Object.keys(matrix[Object.keys(matrix)[0]]) is defined only when the
\* matrix has a first row.
HasFirstRow(m) == Len(Keys(m)) > 0
FirstRowKeys(m) == Keys(Get(m, Keys(m)[1]))

\* A variant of the inner loop whose accumulator starts at 1.
RECURSIVE MultCell_FromOne(_, _, _, _, _, _, _)
MultCell_FromOne(matrixA, matrixB, r, c, colsA, rowsB, k) ==
    IF k = 0 THEN Num(1)
    ELSE JsAdd(MultCell_FromOne(matrixA, matrixB, r, c, colsA, rowsB, k - 1),
               JsMul(Cell(matrixA, r, colsA[k]), Cell(matrixB, rowsB[k], c)))

\* The inner loop over k: result += A[rowsA[i]][colsA[k]] * B[rowsB[k]][colsB[j]],
\* pairing colsA[k] with rowsB[k] by position.
RECURSIVE MultCell(_, _, _, _, _, _, _)
MultCell(matrixA, matrixB, r, c, colsA, rowsB, k) ==
    IF k = 0 THEN Num(0)
    ELSE JsAdd(MultCell(matrixA, matrixB, r, c, colsA, rowsB, k - 1),
               JsMul(Cell(matrixA, r, colsA[k]), Cell(matrixB, rowsB[k], c)))

matrix_mult(matrixA, matrixB) ==
    IF ~HasFirstRow(matrixA) \/ ~HasFirstRow(matrixB) THEN Throw(TypeError)
    ELSE LET rowsA == Keys(matrixA)
             colsA == FirstRowKeys(matrixA)
             rowsB == Keys(matrixB)
             colsB == FirstRowKeys(matrixB)
         IN  IF Len(colsA) # Len(rowsB) THEN Throw(DimensionError)
             ELSE Ok(MkObj(rowsA, [r \in ToSet(rowsA) |->
                        MkObj(colsB, [c \in ToSet(colsB) |->
                            MultCell(matrixA, matrixB, r, c, colsA, rowsB,
                                     Len(colsA))])]))

\* The checks shared by difference and piecewiseDivision, and the reads that
\* throw: the error kind, or "none".  B[r] is read for every row r of A as soon
\* as A has a column; a missing row of B makes that property read throw.
PiecewiseError(matrixA, matrixB) ==
    IF ~HasFirstRow(matrixA) \/ ~HasFirstRow(matrixB) THEN TypeError
    ELSE IF Len(Keys(matrixA)) # Len(Keys(matrixB))
            \/ Len(FirstRowKeys(matrixA)) # Len(FirstRowKeys(matrixB))
    THEN DimensionError
    ELSE IF Len(FirstRowKeys(matrixA)) > 0
            /\ \E r \in ToSet(Keys(matrixA)) : ~Has(matrixB, r)
    THEN TypeError
    ELSE "none"

difference(matrixA, matrixB) ==
    IF PiecewiseError(matrixA, matrixB) # "none"
    THEN Throw(PiecewiseError(matrixA, matrixB))
    ELSE LET rowsA == Keys(matrixA)
             colsA == FirstRowKeys(matrixA)
         IN  Ok(MkObj(rowsA, [r \in ToSet(rowsA) |->
                    MkObj(colsA, [c \in ToSet(colsA) |->
                        JsSub(Cell(matrixA, r, c), Cell(matrixB, r, c))])]))

\* A variant dividing the wrong way round, used to test the properties below.
piecewiseDivision_Swapped(matrixA, matrixB) ==
    IF PiecewiseError(matrixA, matrixB) # "none"
    THEN Throw(PiecewiseError(matrixA, matrixB))
    ELSE LET rowsA == Keys(matrixA)
             colsA == FirstRowKeys(matrixA)
         IN  Ok(MkObj(rowsA, [r \in ToSet(rowsA) |->
                    MkObj(colsA, [c \in ToSet(colsA) |->
                        JsDiv(Cell(matrixB, r, c), Cell(matrixA, r, c))])]))

piecewiseDivision(matrixA, matrixB) ==
    IF PiecewiseError(matrixA, matrixB) # "none"
    THEN Throw(PiecewiseError(matrixA, matrixB))
    ELSE LET rowsA == Keys(matrixA)
             colsA == FirstRowKeys(matrixA)
         IN  Ok(MkObj(rowsA, [r \in ToSet(rowsA) |->
                    MkObj(colsA, [c \in ToSet(colsA) |->
                        JsDiv(Cell(matrixA, r, c), Cell(matrixB, r, c))])]))

(***************************************************************************)
(* The global object.  getVariations, createMatrix and remove of           *)
(* data-objects.js and calculateAggRequirements of mfg-planning.js assign  *)
(* the name result without declaring it.  No file is in strict mode, so    *)
(* the assignment creates or overwrites the property result of the global  *)
(* object, which all modules share and which outlives every call.          *)
(***************************************************************************)
Undeclared == [declared |-> FALSE, value |-> EmptyObj]
Assigned(value) == [declared |-> TRUE, value |-> value]

(***************************************************************************)
(* data-objects.js: record sets.  A record set read with an integer index  *)
(* is a sequence of records, iterated in index order.                      *)
(***************************************************************************)
\* getVariations: the distinct values of a field, in order of first appearance.
RECURSIVE getVariations(_, _)
getVariations(data, field) ==
    IF Len(data) = 0 THEN <<>>
    ELSE LET v == data[Len(data)][field]
         IN  The({IF v \in ToSet(result) THEN result ELSE Append(result, v) :
                     result \in {getVariations(SubSeq(data, 1, Len(data) - 1), field)}})

\* A variant of the loop of createMatrix in which a record replaces the cell
\* instead of adding to it.
RECURSIVE CellSum_Overwrite(_, _, _, _, _, _)
CellSum_Overwrite(data, row_feild, column_feild, value_feild, r, c) ==
    IF Len(data) = 0 THEN Num(0)
    ELSE LET rest == CellSum_Overwrite(SubSeq(data, 1, Len(data) - 1),
                                       row_feild, column_feild, value_feild, r, c)
             rec == data[Len(data)]
         IN  IF rec[row_feild] = r /\ rec[column_feild] = c
             THEN rec[value_feild]
             ELSE rest

\* The loop "result[row][col] += val" of createMatrix, seen from one cell.
RECURSIVE CellSum(_, _, _, _, _, _)
CellSum(data, row_feild, column_feild, value_feild, r, c) ==
    IF Len(data) = 0 THEN Num(0)
    ELSE LET rest == CellSum(SubSeq(data, 1, Len(data) - 1),
                             row_feild, column_feild, value_feild, r, c)
             rec == data[Len(data)]
         IN  IF rec[row_feild] = r /\ rec[column_feild] = c
             THEN JsAdd(rest, rec[value_feild])
             ELSE rest

createMatrix(data, row_feild, column_feild, value_feild) ==
    LET rows == getVariations(data, row_feild)
        columns == getVariations(data, column_feild)
    IN  MkObj(rows, [r \in ToSet(rows) |->
            MkObj(columns, [c \in ToSet(columns) |->
                CellSum(data, row_feild, column_feild, value_feild, r, c)])])

\* crossCut: the rows of data whose key is in filter, in data's key order.
crossCut(data, filter) ==
    LET rows == SelectSeq(Keys(data), LAMBDA r : r \in ToSet(filter))
    IN  MkObj(rows, [r \in ToSet(rows) |-> Get(data, r)])

\* filter(data, {field: value}, "=="): the records whose field equals value.
filterEq(data, field, value) == SelectSeq(data, LAMBDA rec : rec[field] = value)

\* Values other than numbers.  A string is never a numeral here (so it converts
\* to NaN where a number is wanted), and an array holds numbers or strings.
Str(s) == [k |-> "str", n |-> s, d |-> 1]
Arr(items) == [k |-> "array", n |-> items, d |-> 1]

\* a == b for numbers, strings and undefined.
LooseEq(a, b) ==
    /\ a.k = b.k
    /\ a.k \in {"num", "inf", "str", "undef"}
    /\ a = b

\* a > b where a string operand stands for NaN.
JsGreater(a, b) == a.k # "str" /\ b.k # "str" /\ JsGt(a, b)

\* array.includes(v): SameValueZero, under which NaN is found.
ArrayIncludes(array, v) ==
    \E i \in 1..Len(array.n) : array.n[i].k = v.k /\ array.n[i] = v

\* data[record][param]; a missing field reads as undefined.
Field(rec, param) == IF param \in DOMAIN rec THEN rec[param] ELSE Undefined

\* The test of the branch taken for the comparison.  The "<" branch tests with
\* ">" as the ">" branch does.
BranchTest(comparison, v, bound) ==
    CASE comparison = "==" -> LooseEq(v, bound)
      [] comparison = ">" -> JsGreater(v, bound)
      [] comparison = "<" -> JsGreater(v, bound)
      [] OTHER -> ArrayIncludes(bound, v)

\* The loop over the records for one param: the records that pass the test are
\* assigned to result under their keys, in the order of data.  In the "<"
\* branch the statement under the test is the comparison
\* result[record] < data[record], which assigns nothing.
FilterRecords(result, data, param, bound, comparison) ==
    LET passed == SelectSeq(Keys(data), LAMBDA record :
                      /\ BranchTest(comparison, Field(Get(data, record), param), bound)
                      /\ comparison # "<")
        added == SelectSeq(passed, LAMBDA record : ~Has(result, record))
    IN  MkObj(Keys(result) \o added,
              [record \in ToSet(Keys(result)) \cup ToSet(added) |-> Get(data, record)])

\* The loop over the params, after the first m of them.
RECURSIVE FilterParams(_, _, _, _)
FilterParams(data, parameters, comparison, m) ==
    IF m = 0 THEN EmptyObj
    ELSE FilterRecords(FilterParams(data, parameters, comparison, m - 1), data,
                       Keys(parameters)[m], Get(parameters, Keys(parameters)[m]),
                       comparison)

\* filter(data, parameters, comparison) on a data object.
filter(data, parameters, comparison) ==
    IF comparison \notin {"==", ">", "<", "includes"} THEN Throw("Error")
    ELSE Ok(FilterParams(data, parameters, comparison, Len(Keys(parameters))))

(***************************************************************************)
(* mfg-planning.js.  A Manufacturing Data Object (MDO) is a record         *)
(*   items        : object  item   -> [strategy, FOQ, currentInventory]    *)
(*   forecast     : sequence of [item, period, forecast]                   *)
(*   requirements : sequence of [resource, item, requirement]              *)
(*   constraints  : sequence of [resource, period, constraint]             *)
(*   calendar     : object  period -> [days]                               *)
(***************************************************************************)
PlanRows ==
    {"Safety Stock Plan", "Cycle Stock Plan", "Level Load Plan", "Total Inv. Plan",
     "Beginning Inventory", "Sales Forecast", "Production Plan", "Ending Inventory"}

Fast == "Reactive Level Load - Fast"
Slow == "Reactive Level Load - Slow"
NoPeriod == "null"

\* A variant of the scan in which a later record with the same quantity takes
\* the place of an earlier one.
RECURSIVE MaxScan_LastOnTies(_)
MaxScan_LastOnTies(itemForecast) ==
    IF Len(itemForecast) = 0 THEN <<Num(0), NoPeriod>>
    ELSE LET before == MaxScan_LastOnTies(SubSeq(itemForecast, 1, Len(itemForecast) - 1))
             rec == itemForecast[Len(itemForecast)]
         IN  IF JsGt(rec.forecast, Num(0)) /\ ~JsLt(rec.forecast, before[1])
             THEN <<rec.forecast, rec.period>>
             ELSE before

\* The scan for the highest sales period: the pair <<maxPeriodForecast, maxPeriod>>
\* after the records of itemForecast.
RECURSIVE MaxScan(_)
MaxScan(itemForecast) ==
    IF Len(itemForecast) = 0 THEN <<Num(0), NoPeriod>>
    ELSE LET before == MaxScan(SubSeq(itemForecast, 1, Len(itemForecast) - 1))
             rec == itemForecast[Len(itemForecast)]
         IN  IF JsGt(rec.forecast, before[1]) THEN <<rec.forecast, rec.period>>
             ELSE before

\* The strategy branch reads MDO.calendar[maxPeriod].days, which throws when the
\* calendar has no such period (maxPeriod is null when no forecast exceeds 0).
StrategyThrows(MDO, item) ==
    /\ Get(MDO.items, item).strategy \in {Fast, Slow}
    /\ ~Has(MDO.calendar, MaxScan(filterEq(MDO.forecast, "item", item))[2])

\* The pair <<safetyStock, cycleStock>> of an item.
StockLevels(MDO, item) ==
    LET scan == MaxScan(filterEq(MDO.forecast, "item", item))
        maxPeriodForecast == scan[1]
        maxPeriod == scan[2]
        rec == Get(MDO.items, item)
        perDay == JsDiv(maxPeriodForecast, Get(MDO.calendar, maxPeriod).days)
        half == JsRound(JsMul(rec.FOQ, Frac(1, 2)))
    IN  IF rec.strategy = Fast THEN <<JsRound(JsMul(perDay, Num(8))), half>>
        ELSE IF rec.strategy = Slow THEN <<JsRound(JsMul(perDay, Num(20))), half>>
        ELSE <<Num(0), Num(0)>>

\* Variants of the rollforward used to test the properties below against
\* plausible defects.
BeginningInventory_Unchained(rows, periods, i, currentInventory) == currentInventory

ProductionPlan_Unclamped(totalInvPlan, salesForecast, beginningInventory) ==
    JsSub(JsAdd(totalInvPlan, salesForecast), beginningInventory)

EndingInventory_NoProduction(beginningInventory, salesForecast, productionPlan) ==
    JsSub(beginningInventory, salesForecast)

ProductionPlan_NoTarget(totalInvPlan, salesForecast, beginningInventory) ==
    IF JsLt(salesForecast, beginningInventory) THEN Num(0)
    ELSE JsSub(salesForecast, beginningInventory)

\* A variant that adds the whole target to the shortfall of the period.
ProductionPlan_TargetOnTop(totalInvPlan, salesForecast, beginningInventory) ==
    IF JsLt(salesForecast, beginningInventory) THEN totalInvPlan
    ELSE JsAdd(totalInvPlan, JsSub(salesForecast, beginningInventory))

\* Beginning Inventory of the i-th period, given the rows filled so far.
BeginningInventory(rows, periods, i, currentInventory) ==
    IF i = 1 THEN currentInventory
    ELSE Get(rows["Ending Inventory"], periods[i - 1])

ProductionPlan(totalInvPlan, salesForecast, beginningInventory) ==
    IF JsLt(JsAdd(totalInvPlan, salesForecast), beginningInventory) THEN Num(0)
    ELSE JsSub(JsAdd(totalInvPlan, salesForecast), beginningInventory)

EndingInventory(beginningInventory, salesForecast, productionPlan) ==
    JsAdd(JsSub(beginningInventory, salesForecast), productionPlan)

\* The periods the loop visits, in visiting order.
PlanPeriods(calendar) == Keys(calendar)

\* The i-th iteration of the loop over periods: the rows of one item after
\* it, given the rows before it.
PlanPeriod(rows, forecastRow, periods, currentInventory, safetyStock, cycleStock, i) ==
         LET period == periods[i]
             tip == JsAdd(safetyStock, cycleStock)
             bi == BeginningInventory(rows, periods, i, currentInventory)
             sf == IF Has(forecastRow, period) THEN Get(forecastRow, period)
                   ELSE Undefined
             pp == ProductionPlan(tip, sf, bi)
             ei == EndingInventory(bi, sf, pp)
         IN  [row \in PlanRows |->
                Put(rows[row], period,
                    CASE row = "Safety Stock Plan" -> safetyStock
                      [] row = "Cycle Stock Plan" -> cycleStock
                      [] row = "Level Load Plan" -> Num(0)
                      [] row = "Total Inv. Plan" -> tip
                      [] row = "Beginning Inventory" -> bi
                      [] row = "Sales Forecast" -> sf
                      [] row = "Production Plan" -> pp
                      [] OTHER -> ei)]

\* The rows of one item after the first i iterations of the loop over periods.
RECURSIVE RollForward(_, _, _, _, _, _)
RollForward(forecastRow, periods, currentInventory, safetyStock, cycleStock, i) ==
    IF i = 0 THEN [row \in PlanRows |-> EmptyObj]
    ELSE PlanPeriod(RollForward(forecastRow, periods, currentInventory,
                                safetyStock, cycleStock, i - 1),
                    forecastRow, periods, currentInventory, safetyStock, cycleStock, i)

\* forecastMatrix[item][period] is read in every iteration; it throws for an
\* item without a row in the forecast matrix.
ItemThrows(MDO, forecastMatrix, item) ==
    \/ StrategyThrows(MDO, item)
    \/ Len(PlanPeriods(MDO.calendar)) > 0 /\ ~Has(forecastMatrix, item)

generateHorizontalPlan(MDO) ==
    LET forecastMatrix == createMatrix(MDO.forecast, "item", "period", "forecast")
        periods == PlanPeriods(MDO.calendar)
    IN  IF \E item \in ToSet(Keys(MDO.items)) : ItemThrows(MDO, forecastMatrix, item)
        THEN Throw(TypeError)
        ELSE Ok(MkObj(Keys(MDO.items), [item \in ToSet(Keys(MDO.items)) |->
                 LET levels == StockLevels(MDO, item)
                     forecastRow == IF Has(forecastMatrix, item)
                                    THEN Get(forecastMatrix, item) ELSE EmptyObj
                 IN  RollForward(forecastRow, periods,
                                 Get(MDO.items, item).currentInventory,
                                 levels[1], levels[2], Len(periods))]))

calculateAggRequirements(data, horizontalPlan) ==
    LET requirementsMatrix ==
            createMatrix(data.requirements, "resource", "item", "requirement")
        productionMatrix ==
            MkObj(Keys(data.items), [item \in ToSet(Keys(data.items)) |->
                Get(horizontalPlan, item)["Production Plan"]])
    IN  matrix_mult(requirementsMatrix, productionMatrix)

calculateRYG(data, aggRequirements) ==
    LET constraintsMatrix ==
            createMatrix(data.constraints, "resource", "period", "constraint")
        constrainedResources == Keys(constraintsMatrix)
    IN  piecewiseDivision(crossCut(aggRequirements, constrainedResources),
                          constraintsMatrix)

(***************************************************************************)
(* mfg-planning.js: the three functions as they are called, with the log   *)
(* argument.  A call returns or throws (ret), writes messages to the       *)
(* console (logged) and leaves a value in the global variable result       *)
(* (global).  The switch on log comes last, so a call that throws logs     *)
(* nothing.                                                                *)
(***************************************************************************)
\* switch(log) { case "verbose": ... case "concise": ... default: break; }
LogSwitch(log, verbose, concise) ==
    CASE log = "verbose" -> verbose
      [] log = "concise" -> concise
      [] OTHER -> <<>>

\* "verbose" logs one more message per item of the plan.
GenerateHorizontalPlanCall(MDO, log) ==
    LET result == generateHorizontalPlan(MDO)
    IN  [ret |-> result,
         logged |-> IF result.err # "none" THEN <<>>
                    ELSE LogSwitch(log,
                             <<"Generate Horizontal Plan successful.">>
                                 \o Keys(result.value),
                             <<"Generate Horizontal Plan successful.">>),
         global |-> Assigned(createMatrix(MDO.forecast, "item", "period", "forecast"))]

\* result is the global variable here: it holds the product when matrix_mult
\* returns and the requirements matrix of createMatrix when it throws.
CalculateAggRequirementsCall(data, horizontalPlan, log) ==
    LET result == calculateAggRequirements(data, horizontalPlan)
    IN  [ret |-> result,
         logged |-> IF result.err # "none" THEN <<>>
                    ELSE LogSwitch(log,
                             <<"Generate Aggregate Requirements matrix successful.">>,
                             <<"Generate Aggregate Requirements matrix successful.">>),
         global |-> IF result.err = "none" THEN Assigned(result.value)
                    ELSE Assigned(createMatrix(data.requirements,
                                               "resource", "item", "requirement"))]

\* A variant of calculateRYG that builds the matrix in the "verbose" branch only.
CalculateRYGCall_VerboseOnly(data, aggRequirements, log) ==
    LET result == calculateRYG(data, aggRequirements)
    IN  [ret |-> IF log = "verbose" THEN result ELSE Ok(EmptyObj),
         logged |-> IF result.err # "none" THEN <<>>
                    ELSE LogSwitch(log, <<"Generate RYG matrix successful.">>,
                                        <<"Generate RYG matrix successful.">>),
         global |-> Assigned(createMatrix(data.constraints,
                                          "resource", "period", "constraint"))]

\* result is declared with let here; the global variable is left as createMatrix
\* assigned it.
CalculateRYGCall(data, aggRequirements, log) ==
    LET result == calculateRYG(data, aggRequirements)
    IN  [ret |-> result,
         logged |-> IF result.err # "none" THEN <<>>
                    ELSE LogSwitch(log, <<"Generate RYG matrix successful.">>,
                                        <<"Generate RYG matrix successful.">>),
         global |-> Assigned(createMatrix(data.constraints,
                                          "resource", "period", "constraint"))]

(***************************************************************************)
(* stats.js.  A collection is an object  record key -> record, and the     *)
(* analysed column is a field of every record.  Math.sqrt is kept exact:   *)
(* the square root of the rational n/d is the number of kind "sqrt", and   *)
(* a control limit  a + b * sqrt(r)  is the number of kind "surd".         *)
(***************************************************************************)
\* The argument default "average = null" of calc_stdDev.
Null == [k |-> "null", n |-> 0, d |-> 0]

\* Math.sqrt(v)
JsSqrt(v) ==
    IF v.k = "num" /\ v.n >= 0 THEN [k |-> "sqrt", n |-> v.n, d |-> v.d]
    ELSE IF v = PosInf THEN PosInf
    ELSE NaN

\* average + b * stdDev for a rational b: the control limits are
\* average - z * stdDev_s and average + z * stdDev_s.
Limit(average, b, stdDev) ==
    IF average.k = "num" /\ b.k = "num" /\ stdDev.k = "sqrt"
    THEN [k |-> "surd", a |-> average, b |-> b, r |-> Frac(stdDev.n, stdDev.d)]
    ELSE NaN

\* x * |x|, which orders as x does.
SignedSquare(x) == Frac(Sign(x.n) * x.n * x.n, x.d * x.d)

\* value > limit, for a rational value and a control limit.
JsGtLimit(value, limit) ==
    /\ value.k = "num"
    /\ limit.k = "surd"
    /\ JsGt(SignedSquare(JsSub(value, limit.a)),
            JsMul(SignedSquare(limit.b), limit.r))

\* value < limit, for a rational value and a control limit.
JsLtLimit(value, limit) ==
    /\ value.k = "num"
    /\ limit.k = "surd"
    /\ JsLt(SignedSquare(JsSub(value, limit.a)),
            JsMul(SignedSquare(limit.b), limit.r))

\* dataObjects.rip(data, [column]): every record cut down to the column.
rip(data, column) ==
    MkObj(Keys(data), [record \in ToSet(Keys(data)) |->
        [c \in {column} |-> Get(data, record)[c]]])

\* computation.sum_columns(matrixA)[column] over the first n rows of a matrix
\* with at least one row: the cells added to 0 in the order of the rows.
RECURSIVE sum_columns(_, _, _)
sum_columns(matrixA, column, n) ==
    IF n = 0 THEN Num(0)
    ELSE JsAdd(Get(matrixA, Keys(matrixA)[n])[column],
               sum_columns(matrixA, column, n - 1))

\* computation.scalar_add(matrixA, scalar)
scalar_add(matrixA, scalar) ==
    MkObj(Keys(matrixA), [r \in ToSet(Keys(matrixA)) |->
        [c \in DOMAIN Get(matrixA, r) |-> JsAdd(Get(matrixA, r)[c], scalar)]])

\* computation.power(matrixA, 2)
power(matrixA) ==
    MkObj(Keys(matrixA), [r \in ToSet(Keys(matrixA)) |->
        [c \in DOMAIN Get(matrixA, r) |-> JsMul(Get(matrixA, r)[c], Get(matrixA, r)[c])]])

\* sum_columns, scalar_add and power read Object.keys(matrixA[rowsA[0]]), which
\* throws for a matrix without rows.
NoFirstRow(matrixA) == Len(Keys(matrixA)) = 0

calc_average(data, column) ==
    LET select_data == rip(data, column)
        count == Len(Keys(select_data))
        sum == sum_columns(select_data, column, count)
    IN  JsDiv(sum, Num(count))

\* A variant of calc_stdDev that divides by count whatever the type.
calc_stdDev_Population(data, column, stdDevType, average) ==
    LET select_data == rip(data, column)
        count == Len(Keys(select_data))
        mean == IF average = Null THEN calc_average(select_data, column) ELSE average
        sumSquaredDeviations ==
            sum_columns(power(scalar_add(select_data, JsNeg(mean))), column, count)
    IN  JsSqrt(JsDiv(sumSquaredDeviations, Num(count)))

\* A variant of dataObjects.remove that keeps the first of the removed records.
remove_KeepFirst(data, removed) ==
    LET kept == SelectSeq(Keys(data), LAMBDA key :
                    key \notin ToSet(removed) \/ key = removed[1])
    IN  MkObj(kept, [key \in ToSet(kept) |-> Get(data, key)])

\* calc_stdDev for the two types calc passes, "sample" and "population" (any
\* other type throws).
calc_stdDev(data, column, stdDevType, average) ==
    LET select_data == rip(data, column)
        count == Len(Keys(select_data))
        mean == IF average = Null THEN calc_average(select_data, column) ELSE average
        deviations == scalar_add(select_data, JsNeg(mean))
        squaredDeviations == power(deviations)
        sumSquaredDeviations == sum_columns(squaredDeviations, column, count)
        variance == IF stdDevType = "sample"
                    THEN JsDiv(sumSquaredDeviations, Num(count - 1))
                    ELSE JsDiv(sumSquaredDeviations, Num(count))
    IN  JsSqrt(variance)

\* The scan of calc for stats.max, which starts from 0, over the first n records.
RECURSIVE MaxOf(_, _, _)
MaxOf(data, column, n) ==
    IF n = 0 THEN Num(0)
    ELSE LET value == Get(data, Keys(data)[n])[column]
         IN  The({IF JsGt(value, max) THEN value ELSE max :
                     max \in {MaxOf(data, column, n - 1)}})

\* The scan of calc for stats.min, which starts from Infinity.
RECURSIVE MinOf(_, _, _)
MinOf(data, column, n) ==
    IF n = 0 THEN PosInf
    ELSE LET value == Get(data, Keys(data)[n])[column]
         IN  The({IF JsLt(value, min) THEN value ELSE min :
                     min \in {MinOf(data, column, n - 1)}})

\* values.sort((a, b) => a - b) after the first n values were pushed.
RECURSIVE SortedValues(_, _, _)
SortedValues(data, column, n) ==
    IF n = 0 THEN <<>>
    ELSE LET value == Get(data, Keys(data)[n])[column]
         IN  The({SelectSeq(sorted, LAMBDA v : ~JsGt(v, value)) \o <<value>>
                      \o SelectSeq(sorted, LAMBDA v : JsGt(v, value)) :
                     sorted \in {SortedValues(data, column, n - 1)}})

Median(values, count) ==
    IF count % 2 = 0
    THEN JsDiv(JsAdd(values[count \div 2], values[count \div 2 + 1]), Num(2))
    ELSE values[count \div 2 + 1]

\* dataObjects.remove(data, remove): data without the records whose key is in
\* remove.
remove(data, removed) ==
    LET kept == SelectSeq(Keys(data), LAMBDA key : key \notin ToSet(removed))
    IN  MkObj(kept, [key \in ToSet(kept) |-> Get(data, key)])

\* A variant of the outlier test that also flags a value equal to a limit.
IsOutlier_Inclusive(value, lcl, ucl) ==
    \/ ucl.k = "surd" /\ ~JsLtLimit(value, ucl)
    \/ lcl.k = "surd" /\ ~JsGtLimit(value, lcl)

\* The test of calc that makes a record an outlier.
IsOutlier(value, lcl, ucl) == JsGtLimit(value, ucl) \/ JsLtLimit(value, lcl)

StatsKeys ==
    <<"count", "average", "max", "min", "outliers", "median",
      "stdDev_s", "stdDev_p", "lcl", "ucl">>

\* calc(data, column, z): the statistics object, or the TypeError that
\* calc_average throws on a collection without records.
calc(data, column, z) ==
    IF NoFirstRow(data) THEN Throw(TypeError)
    ELSE
    LET count == Len(Keys(data))
        average == calc_average(data, column)
        values == SortedValues(data, column, count)
        stdDev_s == calc_stdDev(data, column, "sample", average)
        stdDev_p == calc_stdDev(data, column, "population", average)
        lcl == Limit(average, JsNeg(z), stdDev_s)
        ucl == Limit(average, z, stdDev_s)
        flagged == SelectSeq(Keys(data), LAMBDA record :
                       IsOutlier(Get(data, record)[column], lcl, ucl))
        outliers == MkObj(flagged, [record \in ToSet(flagged) |->
                        Get(data, record)[column]])
        summary == [count |-> Num(count), average |-> average,
                    max |-> MaxOf(data, column, count),
                    min |-> MinOf(data, column, count),
                    outliers |-> outliers, median |-> Median(values, count),
                    stdDev_s |-> stdDev_s, stdDev_p |-> stdDev_p,
                    lcl |-> lcl, ucl |-> ucl]
        stats == MkObj(StatsKeys, [key \in ToSet(StatsKeys) |-> summary[key]])
        data_adj == remove(data, Keys(outliers))
    IN  IF Len(Keys(outliers)) = 0 THEN Ok(stats)
        ELSE IF NoFirstRow(data_adj) THEN Throw(TypeError)
        ELSE Ok(Put(Put(stats, "average_adj", calc_average(data_adj, column)),
                    "stdDev_adj", calc_stdDev(data_adj, column, "sample", Null)))

\* The global variable result after calc(data, column, z), given its value
\* before the call and what calc returned: remove assigns it when calc finds
\* outliers (also when calc_average then throws on the emptied collection).
ResultAfterCalc(previous, data, summary) ==
    IF summary.err = "none"
    THEN IF Len(Keys(Get(summary.value, "outliers"))) = 0 THEN previous
         ELSE Assigned(remove(data, Keys(Get(summary.value, "outliers"))))
    ELSE IF NoFirstRow(data) THEN previous
    ELSE Assigned(EmptyObj)

(***************************************************************************)
(* stats.js, normInverse.  Probabilities are whole multiples of 1e-9, the   *)
(* finest step of the keys of zTable, and are written as that multiple;    *)
(* z-scores are exact numbers (the table holds hundredths).                *)
(***************************************************************************)
\* The initial higherP = 1.
ProbabilityOne == 1000000000

\* The literal zTable in the order of its keys: <<key, z-score in hundredths>>.
zTable ==
    <<
      <<1, -600>>, <<10, -561>>, <<100, -520>>, <<1000, -475>>,
      <<10000, -426>>, <<100000, -372>>, <<1000000, -309>>,
      <<5000000, -258>>, <<10000000, -233>>, <<20000000, -205>>,
      <<30000000, -188>>, <<40000000, -175>>, <<50000000, -164>>,
      <<60000000, -155>>, <<70000000, -148>>, <<80000000, -141>>,
      <<90000000, -134>>, <<100000000, -128>>, <<110000000, -123>>,
      <<120000000, -117>>, <<130000000, -113>>, <<140000000, -108>>,
      <<150000000, -104>>, <<160000000, -99>>, <<170000000, -95>>,
      <<180000000, -92>>, <<190000000, -88>>, <<200000000, -84>>,
      <<210000000, -81>>, <<220000000, -77>>, <<230000000, -74>>,
      <<240000000, -71>>, <<250000000, -67>>, <<260000000, -64>>,
      <<270000000, -61>>, <<280000000, -58>>, <<290000000, -55>>,
      <<300000000, -52>>, <<310000000, -50>>, <<320000000, -47>>,
      <<330000000, -44>>, <<340000000, -41>>, <<350000000, -39>>,
      <<360000000, -36>>, <<370000000, -33>>, <<380000000, -31>>,
      <<390000000, -28>>, <<400000000, -25>>, <<410000000, -23>>,
      <<420000000, -20>>, <<430000000, -18>>, <<440000000, -15>>,
      <<450000000, -13>>, <<460000000, -10>>, <<470000000, -8>>,
      <<480000000, -5>>, <<490000000, -3>>, <<500000000, 0>>,
      <<510000000, 3>>, <<520000000, 5>>, <<530000000, 8>>,
      <<540000000, 10>>, <<550000000, 13>>, <<560000000, 15>>,
      <<570000000, 18>>, <<580000000, 20>>, <<590000000, 23>>,
      <<600000000, 25>>, <<610000000, 28>>, <<620000000, 31>>,
      <<630000000, 33>>, <<640000000, 36>>, <<650000000, 39>>,
      <<660000000, 41>>, <<670000000, 44>>, <<680000000, 47>>,
      <<690000000, 50>>, <<700000000, 52>>, <<710000000, 55>>,
      <<720000000, 58>>, <<730000000, 61>>, <<740000000, 64>>,
      <<750000000, 67>>, <<760000000, 71>>, <<770000000, 74>>,
      <<780000000, 77>>, <<790000000, 81>>, <<800000000, 84>>,
      <<810000000, 88>>, <<820000000, 92>>, <<830000000, 95>>,
      <<840000000, 99>>, <<850000000, 104>>, <<860000000, 108>>,
      <<870000000, 113>>, <<880000000, 117>>, <<890000000, 123>>,
      <<900000000, 128>>, <<910000000, 134>>, <<920000000, 141>>,
      <<930000000, 148>>, <<940000000, 155>>, <<950000000, 164>>,
      <<960000000, 175>>, <<970000000, 188>>, <<980000000, 205>>,
      <<985000000, 217>>, <<990000000, 233>>, <<995000000, 258>>,
      <<999000000, 309>>, <<999900000, 372>>, <<999990000, 426>>,
      <<999999000, 475>>, <<999999900, 520>>, <<999999990, 561>>,
      <<999999999, 600>>
    >>

\* zTable[p]: the z-score stored under the key p, undefined when p is no key.
zTableAt(p) ==
    IF \E k \in 1..Len(zTable) : zTable[k][1] = p
    THEN Frac(zTable[CHOOSE k \in 1..Len(zTable) : zTable[k][1] = p][2], 100)
    ELSE Undefined

\* The loop over the keys: it returns at a key equal to p.
KeyHit(p) == \E k \in 1..Len(zTable) : zTable[k][1] = p

\* lowerP after the loop: it starts at 0 and takes every key <= p that is
\* above it, so it ends as the largest of 0 and the keys <= p.
LowerP(p) ==
    LET met == {0} \cup {zTable[k][1] : k \in {i \in 1..Len(zTable) : zTable[i][1] <= p}}
    IN  CHOOSE key \in met : \A other \in met : other <= key

\* higherP after the loop: it starts at 1 and takes every key >= p that is
\* below it, so it ends as the smallest of 1 and the keys >= p.
HigherP(p) ==
    LET met == {ProbabilityOne} \cup
               {zTable[k][1] : k \in {i \in 1..Len(zTable) : zTable[i][1] >= p}}
    IN  CHOOSE key \in met : \A other \in met : other >= key

\* A variant that returns the z-score of the nearest key below p.
normInverse_Nearest(p) ==
    IF KeyHit(p) THEN zTableAt(p) ELSE zTableAt(LowerP(p))

normInverse(p) ==
    LET lowerP == LowerP(p)
        higherP == HigherP(p)
        lowerZ == zTableAt(lowerP)
        higherZ == zTableAt(higherP)
    IN  IF KeyHit(p) THEN zTableAt(p)
        ELSE JsAdd(lowerZ,
                   JsMul(JsSub(higherZ, lowerZ),
                         JsDiv(Num(p - lowerP), Num(higherP - lowerP))))

(***************************************************************************)
(* 20240101_SS_Analysis.js: the safety stock analysis.  A completion date   *)
(* is the number of hours since a fixed instant (the Date objects are only *)
(* subtracted), so that a day is HoursPerDay of them.                      *)
(***************************************************************************)
\* msPerDay, in hours.
HoursPerDay == 24

\* dataObjects.daysBetween(date1, date2)
daysBetween(date1, date2) ==
    JsRound(JsDiv(JsSub(date2, date1), Num(HoursPerDay)))

\* The object literal {field: v}.
Criterion(field, v) == MkObj(<<field>>, [f \in {field} |-> v])

\* The records of a data object in the order of "for (record in data)".
RecordsOf(data) == [i \in 1..Len(Keys(data)) |-> Get(data, Keys(data)[i])]

\* o[key], undefined for a missing property.
Prop(o, key) == IF Has(o, key) THEN Get(o, key) ELSE Undefined

\* A variant of the test that also counts a gap of one day.
IsNewCycle_Inclusive(performanceCycleTime) == ~JsLt(performanceCycleTime, Num(1))

\* The test performanceCycleTime > 1.
IsNewCycle(performanceCycleTime) == JsGt(performanceCycleTime, Num(1))

\* performanceCycleTimes[item] after the loop over the records of the item:
\* the record at position j enters under its key when the time since the
\* record before it passes the test.
CycleTimes(itemData) ==
    LET keys == Keys(itemData)
        performanceCycleTime(j) ==
            daysBetween(Field(Get(itemData, keys[j - 1]), "Actual Completion"),
                        Field(Get(itemData, keys[j]), "Actual Completion"))
        kept == SelectSeq([i \in 1..(Len(keys) - 1) |-> i + 1],
                          LAMBDA j : IsNewCycle(performanceCycleTime(j)))
    IN  MkObj([i \in 1..Len(kept) |-> keys[kept[i]]],
              [key \in {keys[j] : j \in ToSet(kept)} |->
                  [c \in {"Performance Cycle Time"} |->
                      performanceCycleTime(CHOOSE j \in ToSet(kept) : keys[j] = key)]])

\* One iteration of the loop of calcSupplyStats: the state after it, from the
\* state before it, the item's cycle times and what stats.calc made of them.
\* The state is the statistics and the cycle times collected, the error that
\* ended the loop, if any, and the global variable result, which getVariations
\* and every calc that finds outliers assign.
SupplyStep(before, item, times, summary) ==
    IF before.err # "none" THEN before
    ELSE [err |-> summary.err,
          supplyStats |->
              IF summary.err = "none"
              THEN Put(before.supplyStats, item.n, summary.value)
              ELSE before.supplyStats,
          performanceCycleTimes |-> Put(before.performanceCycleTimes, item.n, times),
          global |-> ResultAfterCalc(before.global, times, summary)]

\* The loop of calcSupplyStats over the first n items.
RECURSIVE SupplyLoop(_, _, _)
SupplyLoop(productionData, items, n) ==
    IF n = 0
    THEN [err |-> "none", supplyStats |-> EmptyObj, performanceCycleTimes |-> EmptyObj,
          global |-> Assigned(Arr(items))]
    ELSE The({The({The({SupplyStep(before, items[n], times, summary) :
                 summary \in {calc(times, "Performance Cycle Time", Num(3))}}) :
                 times \in {CycleTimes(filter(productionData,
                                Criterion("Item Number", items[n]), "==").value)}}) :
                 before \in {SupplyLoop(productionData, items, n - 1)}})

\* calcSupplyStats on the sheet read by readExcel.
calcSupplyStats(sheet) ==
    LET okData == filter(sheet, Criterion("Org", Str("OK")), "==").value
    IN  The({The({SupplyLoop(productionData, items, Len(items)) :
             items \in {getVariations(RecordsOf(productionData), "Item Number")}}) :
             productionData \in
                 {filter(okData, Criterion("Completed Qty", Num(0)), ">").value}})

\* One iteration of the loop of calcDemandStats.
DemandStep(before, item, itemData, summary) ==
    IF before.err # "none" THEN before
    ELSE [err |-> summary.err,
          value |-> IF summary.err = "none"
                    THEN Put(before.value, item.n, summary.value)
                    ELSE EmptyObj,
          global |-> ResultAfterCalc(before.global, itemData, summary)]

\* The loop of calcDemandStats over the first n items.
RECURSIVE DemandLoop(_, _, _)
DemandLoop(shippingData, items, n) ==
    IF n = 0 THEN [err |-> "none", value |-> EmptyObj, global |-> Assigned(Arr(items))]
    ELSE The({The({The({DemandStep(before, items[n], itemData, summary) :
                 summary \in {calc(itemData, "Shipped Qty", Num(4))}}) :
                 itemData \in {filter(shippingData,
                                      Criterion("Item", items[n]), "==").value}}) :
                 before \in {DemandLoop(shippingData, items, n - 1)}})

\* calcDemandStats on the sheet read by readExcel.
calcDemandStats(sheet) ==
    The({The({DemandLoop(shippingData, items, Len(items)) :
         items \in {getVariations(RecordsOf(shippingData), "Item")}}) :
         shippingData \in {filter(sheet, Criterion("Org", Str("OK")), "==").value}})

\* a * b where one factor may be a square root: c * sqrt(r) is the number of
\* kind "surd" with a = 0.
JsTimes(a, b) ==
    IF IsNaNLike(a) \/ IsNaNLike(b) THEN NaN
    ELSE IF a.k = "num" /\ b.k = "sqrt"
    THEN [k |-> "surd", a |-> Num(0), b |-> a, r |-> Frac(b.n, b.d)]
    ELSE IF a.k = "sqrt" /\ b.k = "num"
    THEN [k |-> "surd", a |-> Num(0), b |-> b, r |-> Frac(a.n, a.d)]
    ELSE JsMul(a, b)

\* x ** 2
JsSquare(x) ==
    IF IsNaNLike(x) THEN NaN
    ELSE IF x.k = "sqrt" THEN Frac(x.n, x.d)
    ELSE IF x.k = "surd" THEN JsMul(JsMul(x.b, x.b), x.r)
    ELSE JsMul(x, x)

\* The service level p = 0.985, in units of 1e-9.
ServiceLevel == 985000000

\* The fields of safetyStocks[item].
SafetyStock(supplySummary, demandSummary) ==
    LET zScore == normInverse(ServiceLevel)
        averagePerformanceCylce == Prop(supplySummary, "average_adj")
        performanceCycleStdDev == Prop(supplySummary, "stdDev_adj")
        averageSales == Prop(demandSummary, "average_adj")
        demandStdDev == Prop(demandSummary, "stdDev_adj")
        supplyComponent == JsTimes(averageSales, performanceCycleStdDev)
        demandComponent == JsSqrt(JsTimes(averagePerformanceCylce, JsSquare(demandStdDev)))
    IN  [p |-> ServiceLevel, z |-> zScore,
         averagePerformanceCylce |-> averagePerformanceCylce,
         performanceCycleStdDev |-> performanceCycleStdDev,
         averageSales |-> averageSales, demandStdDev |-> demandStdDev,
         supplyComponent |-> supplyComponent, demandComponent |-> demandComponent,
         recommendation |->
             JsTimes(zScore, JsSqrt(JsAdd(JsSquare(demandComponent),
                                          JsSquare(supplyComponent))))]

\* The loop over the items of supplyStats, after the first n of them;
\* demandStats[item].average_adj throws for an item without demand summary.
RECURSIVE SafetyStocks(_, _, _)
SafetyStocks(supplyStats, demandStats, n) ==
    IF n = 0 THEN Ok(EmptyObj)
    ELSE LET before == SafetyStocks(supplyStats, demandStats, n - 1)
             item == Keys(supplyStats)[n]
         IN  IF before.err # "none" THEN before
             ELSE IF ~Has(demandStats, item) THEN Throw(TypeError)
             ELSE Ok(Put(before.value, item,
                         SafetyStock(Get(supplyStats, item), Get(demandStats, item))))

(***************************************************************************)
(* State.  The planning run of index.js: the dataset, then                 *)
(*   data.horizontalPlan  = generateHorizontalPlan(data)                   *)
(*   data.aggRequirements = calculateAggRequirements(data)                 *)
(*   data.RYG             = calculateRYG(data)                             *)
(* each stage running once; an uncaught error ends the run.  The matrix    *)
(* operations are also exercised on their own, on a pair of matrices; so   *)
(* are the functions of data-objects.js and stats.js, on one data          *)
(* argument, and the loop of generateHorizontalPlan over the periods of    *)
(* one item, one iteration at a time.                                      *)
(***************************************************************************)
VARIABLES
    MDO,              \* the dataset read by getMDO
    horizontalPlan,   \* data.horizontalPlan
    aggRequirements,  \* data.aggRequirements
    RYG,              \* data.RYG
    pc,               \* the stage reached by the planning run
    failure,          \* the kind of the uncaught error, "none" while running
    matrixA,          \* first operand of a matrix operation
    matrixB,          \* second operand of a matrix operation
    op,               \* the matrix operation applied, "idle" before
    out,              \* what the matrix operation returned or threw
    data,             \* the data argument of createMatrix or of calc
    z,                \* the z argument of calc
    fn,               \* the function applied to data, "idle" before
    ret,              \* what the function returned or threw
    locals,           \* generateHorizontalPlan's locals at the loop over periods
    planRows,         \* result[item], the rows filled so far
    done,             \* i, the number of iterations of the loop done
    matrixC,          \* third operand of a chain of two products
    left,             \* what matrix_mult(matrix_mult(A, B), C) returned or threw
    right,            \* what matrix_mult(A, matrix_mult(B, C)) returned or threw
    side,             \* the products of the chain computed so far
    prob,             \* the argument p of normInverse, in units of 1e-9
    parameters,       \* the parameters argument of filter
    comparison,       \* the comparison argument of filter
    productionSheet,  \* the Production sheet as readExcel returns it
    shippingSheet,    \* the Shipping sheet as readExcel returns it
    performanceCycleTimes,  \* calcSupplyStats' performanceCycleTimes
    supplyStats,      \* the script's supplyStats
    demandStats,      \* the script's demandStats
    safetyStocks,     \* the script's safetyStocks
    stage,            \* the statement of the analysis script reached
    globalResult,     \* the property result of the global object
    log,              \* the log argument of the calls of the current run
    console,          \* the messages written with console.log, in order
    pass,             \* 1 in the first run of the pipeline, 2 in the second
    firstRun          \* what the first run of the pipeline left in the dataset

vars == <<MDO, horizontalPlan, aggRequirements, RYG, pc, failure,
          matrixA, matrixB, op, out, data, z, fn, ret, locals, planRows, done,
          matrixC, left, right, side, prob, parameters, comparison,
          productionSheet, shippingSheet, performanceCycleTimes, supplyStats,
          demandStats, safetyStocks, stage,
          globalResult, log, console, pass, firstRun>>

planVars == <<MDO, horizontalPlan, aggRequirements, RYG, pc, failure>>
matrixVars == <<matrixA, matrixB, op, out>>
dataVars == <<data, z, fn, ret>>
loopVars == <<locals, planRows, done>>
chainVars == <<matrixC, left, right, side>>
normVars == <<prob>>
filterVars == <<parameters, comparison>>
analysisVars == <<productionSheet, shippingSheet, performanceCycleTimes, supplyStats,
                  demandStats, safetyStocks, stage>>
globalVars == <<globalResult>>
rerunVars == <<log, console, pass, firstRun>>

(***************************************************************************)
(* Bounds and input sets.                                                  *)
(***************************************************************************)
MaxForecast == 2
MaxPeriods == 2
MaxReq == 2
MaxCon == 2
MaxCell == 1
MaxRecords == 3
MaxSample == 4

SeqsUpTo(S, n) == UNION {[1..m -> S] : m \in 0..n}
DistinctSeqs(S, n) ==
    {q \in SeqsUpTo(S, n) : \A i, j \in 1..Len(q) : i # j => q[i] # q[j]}

ItemRec(strategy, inv) ==
    [strategy |-> strategy, FOQ |-> Num(3), currentInventory |-> Num(inv)]

DaysOf(period) == IF period = "p2" THEN Num(5) ELSE Num(4)

CalendarOf(periods) == MkObj(periods, [p \in ToSet(periods) |-> [days |-> DaysOf(p)]])

ForecastRec(item, period, q) == [item |-> item, period |-> period, forecast |-> Num(q)]
RequirementRec(resource, item, q) ==
    [resource |-> resource, item |-> item, requirement |-> Num(q)]
ConstraintRec(resource, period, q) ==
    [resource |-> resource, period |-> period, constraint |-> Num(q)]

\* Family 1: the items' attributes, the forecast records and the calendar vary.
PlanItemTables ==
    {MkObj(q, [i \in ToSet(q) |->
                 IF i = "a" THEN ItemRec(st, inv) ELSE ItemRec("None", -2)]) :
        q \in {<<"a">>, <<"a", "b">>},
        st \in {"None", Fast, Slow},
        inv \in {-2, 0, 9}}

PlanForecasts ==
    SeqsUpTo({ForecastRec(i, p, q) : i \in {"a", "b"}, p \in {"p1", "p2"}, q \in {0, 2}},
             MaxForecast)

PlanCalendars == {CalendarOf(q) : q \in DistinctSeqs({"p1", "p2", "p3"}, MaxPeriods)}

FixedRequirements == <<RequirementRec("R1", "a", 1), RequirementRec("R2", "b", 2)>>
FixedConstraints == <<ConstraintRec("R1", "p1", 100), ConstraintRec("R1", "p2", 100)>>

PlanDataSets ==
    {[items |-> it, forecast |-> fc, requirements |-> FixedRequirements,
      constraints |-> FixedConstraints, calendar |-> cal] :
        it \in PlanItemTables, fc \in PlanForecasts, cal \in PlanCalendars}

\* Family 2: the order of the items table and the requirement records vary.
FixedForecast ==
    <<ForecastRec("a", "p1", 110), ForecastRec("b", "p1", 3), ForecastRec("a", "p2", 1)>>

LoadItemTables ==
    {MkObj(q, [i \in ToSet(q) |-> ItemRec("None", 0)]) :
        q \in {<<"a">>, <<"a", "b">>, <<"b", "a">>}}

LoadRequirements ==
    SeqsUpTo({RequirementRec(r, i, q) :
                 r \in {"R1", "R2"}, i \in {"a", "b", "x"}, q \in {1, 2}}, MaxReq)

LoadDataSets ==
    {[items |-> it, forecast |-> FixedForecast, requirements |-> rq,
      constraints |-> FixedConstraints, calendar |-> CalendarOf(<<"p1", "p2">>)] :
        it \in LoadItemTables, rq \in LoadRequirements}

\* Family 3: the constraint records and the calendar vary.
CapacityConstraints ==
    SeqsUpTo({ConstraintRec(r, p, q) :
                 r \in {"R1", "R2", "R3"}, p \in {"p1", "p2"}, q \in {0, 100}}, MaxCon)

CapacityDataSets ==
    {[items |-> MkObj(<<"a", "b">>, [i \in {"a", "b"} |-> ItemRec("None", 0)]),
      forecast |-> FixedForecast, requirements |-> FixedRequirements,
      constraints |-> cn, calendar |-> CalendarOf(q)] :
        cn \in CapacityConstraints, q \in {<<"p1">>, <<"p1", "p2">>}}

DataSets == PlanDataSets \cup LoadDataSets \cup CapacityDataSets

\* The complete matrices over the given row and column keys with cells 0..MaxCell,
\* in every key order; the matrix without rows is the empty object.
MatrixSet(rowKeys, colKeys) ==
    {MkObj(rs, [r \in ToSet(rs) |-> MkObj(cs, [c \in ToSet(cs) |-> Num(f[r][c])])]) :
        rs \in DistinctSeqs(rowKeys, Cardinality(rowKeys)),
        cs \in DistinctSeqs(colKeys, Cardinality(colKeys)),
        f \in [rowKeys -> [colKeys -> 0..MaxCell]]}

(***************************************************************************)
(* The planning run.                                                       *)
(***************************************************************************)
\* No call has assigned the global variable result yet.
NoGlobal == globalResult = Undeclared

\* What a run leaves in the dataset and how it ended.
Outcome(plan, requirements, ryg, err, at, level) ==
    [horizontalPlan |-> plan, aggRequirements |-> requirements, RYG |-> ryg,
     failure |-> err, pc |-> at, log |-> level]

NoRun == Outcome(EmptyObj, EmptyObj, EmptyObj, "none", "off", "null")

\* A single run of calls without a log argument.
RerunIdle ==
    /\ log = "null"
    /\ console = <<>>
    /\ pass = 1
    /\ firstRun = NoRun

MatrixIdle ==
    /\ matrixA = EmptyObj
    /\ matrixB = EmptyObj
    /\ op = "off"
    /\ out = Throw("none")

DataIdle ==
    /\ data = EmptyObj
    /\ z = Num(0)
    /\ fn = "off"
    /\ ret = Throw("none")

ChainIdle ==
    /\ matrixC = EmptyObj
    /\ left = Throw("none")
    /\ right = Throw("none")
    /\ side = "off"

NormIdle == prob = 0

FilterIdle ==
    /\ parameters = EmptyObj
    /\ comparison = "=="

AnalysisIdle ==
    /\ productionSheet = EmptyObj
    /\ shippingSheet = EmptyObj
    /\ performanceCycleTimes = EmptyObj
    /\ supplyStats = EmptyObj
    /\ demandStats = EmptyObj
    /\ safetyStocks = EmptyObj
    /\ stage = "off"

LoopIdle ==
    /\ locals = [forecastRow |-> EmptyObj, periods |-> <<>>,
                 currentInventory |-> Num(0), safetyStock |-> Num(0),
                 cycleStock |-> Num(0)]
    /\ planRows = [row \in PlanRows |-> EmptyObj]
    /\ done = 0

Init ==
    /\ MDO \in DataSets
    /\ horizontalPlan = EmptyObj
    /\ aggRequirements = EmptyObj
    /\ RYG = EmptyObj
    /\ pc = "start"
    /\ failure = "none"
    /\ MatrixIdle
    /\ DataIdle
    /\ LoopIdle
    /\ ChainIdle
    /\ NormIdle
    /\ FilterIdle
    /\ AnalysisIdle
    /\ RerunIdle
    /\ NoGlobal

GenerateHorizontalPlan ==
    /\ pc = "start"
    /\ \E call \in {GenerateHorizontalPlanCall(MDO, log)} :
           /\ horizontalPlan' = call.ret.value
           /\ failure' = call.ret.err
           /\ pc' = IF call.ret.err = "none" THEN "planned" ELSE "failedPlan"
           /\ console' = console \o call.logged
           /\ globalResult' = call.global
    /\ UNCHANGED <<MDO, aggRequirements, RYG, log, pass, firstRun,
                   matrixVars, dataVars, loopVars, chainVars, normVars,
                   filterVars, analysisVars>>

CalculateAggRequirements ==
    /\ pc = "planned"
    /\ \E call \in {CalculateAggRequirementsCall(MDO, horizontalPlan, log)} :
           /\ aggRequirements' = call.ret.value
           /\ failure' = call.ret.err
           /\ pc' = IF call.ret.err = "none" THEN "aggregated" ELSE "failedAgg"
           /\ console' = console \o call.logged
           /\ globalResult' = call.global
    /\ UNCHANGED <<MDO, horizontalPlan, RYG, log, pass, firstRun,
                   matrixVars, dataVars, loopVars, chainVars, normVars,
                   filterVars, analysisVars>>

CalculateRYG ==
    /\ pc = "aggregated"
    /\ \E call \in {CalculateRYGCall(MDO, aggRequirements, log)} :
           /\ RYG' = call.ret.value
           /\ failure' = call.ret.err
           /\ pc' = IF call.ret.err = "none" THEN "rated" ELSE "failedRYG"
           /\ console' = console \o call.logged
           /\ globalResult' = call.global
    /\ UNCHANGED <<MDO, horizontalPlan, aggRequirements, log, pass, firstRun,
                   matrixVars, dataVars, loopVars, chainVars, normVars,
                   filterVars, analysisVars>>

Next ==
    \/ GenerateHorizontalPlan
    \/ CalculateAggRequirements
    \/ CalculateRYG

Spec == Init /\ [][Next]_vars

(***************************************************************************)
(* The planning run made twice on the same dataset: the second run starts  *)
(* from everything the first one left (the dataset's horizontalPlan,       *)
(* aggRequirements and RYG, the console, the global variable result) and   *)
(* may pass another log argument.                                          *)
(***************************************************************************)
LogLevels == {"verbose", "concise", "null"}

RerunItemTables ==
    {MkObj(q, [i \in ToSet(q) |->
                 IF i = "a" THEN ItemRec(st, inv) ELSE ItemRec("None", -2)]) :
        q \in {<<"a">>, <<"a", "b">>}, st \in {"None", Fast}, inv \in {0, 9}}

RerunForecasts ==
    {FixedForecast, <<>>, <<ForecastRec("a", "p2", 2), ForecastRec("a", "p2", 2)>>}

RerunConstraints ==
    {FixedConstraints, <<>>, <<ConstraintRec("R2", "p1", 0)>>}

RerunDataSets ==
    {[items |-> it, forecast |-> fc, requirements |-> FixedRequirements,
      constraints |-> cn, calendar |-> CalendarOf(<<"p1", "p2">>)] :
        it \in RerunItemTables, fc \in RerunForecasts, cn \in RerunConstraints}

InitRerun ==
    /\ MDO \in RerunDataSets
    /\ horizontalPlan = EmptyObj
    /\ aggRequirements = EmptyObj
    /\ RYG = EmptyObj
    /\ pc = "start"
    /\ failure = "none"
    /\ log \in LogLevels
    /\ console = <<>>
    /\ pass = 1
    /\ firstRun = NoRun
    /\ NoGlobal
    /\ MatrixIdle
    /\ DataIdle
    /\ LoopIdle
    /\ ChainIdle
    /\ NormIdle
    /\ FilterIdle
    /\ AnalysisIdle

\* The run has returned its last matrix or has thrown.
Ended == pc \in {"rated", "failedPlan", "failedAgg", "failedRYG"}

\* The caller starts the second run, with a log argument of its choice.
RunAgain ==
    /\ pass = 1
    /\ Ended
    /\ firstRun' = Outcome(horizontalPlan, aggRequirements, RYG, failure, pc, log)
    /\ pass' = 2
    /\ pc' = "start"
    /\ log' \in LogLevels
    /\ UNCHANGED <<MDO, horizontalPlan, aggRequirements, RYG, failure, console,
                   globalVars, matrixVars, dataVars, loopVars, chainVars, normVars,
                   filterVars, analysisVars>>

NextRerun ==
    \/ GenerateHorizontalPlan
    \/ CalculateAggRequirements
    \/ CalculateRYG
    \/ RunAgain

SpecRerun == InitRerun /\ [][NextRerun]_vars

(***************************************************************************)
(* The matrix operations on their own.                                     *)
(***************************************************************************)
PlanIdle ==
    /\ MDO = [items |-> EmptyObj, forecast |-> <<>>, requirements |-> <<>>,
              constraints |-> <<>>, calendar |-> EmptyObj]
    /\ horizontalPlan = EmptyObj
    /\ aggRequirements = EmptyObj
    /\ RYG = EmptyObj
    /\ pc = "off"
    /\ failure = "none"

InitMatrix ==
    /\ matrixA \in MatrixSet({"x"}, {"x", "y"})
    /\ matrixB \in MatrixSet({"x", "y"}, {"x", "y"})
    /\ op = "idle"
    /\ out = Throw("none")
    /\ PlanIdle
    /\ DataIdle
    /\ LoopIdle
    /\ ChainIdle
    /\ NormIdle
    /\ FilterIdle
    /\ AnalysisIdle
    /\ RerunIdle
    /\ NoGlobal

MatrixMult ==
    /\ op = "idle"
    /\ op' = "matrix_mult"
    /\ out' = matrix_mult(matrixA, matrixB)
    /\ UNCHANGED <<matrixA, matrixB, planVars, dataVars, loopVars, chainVars, normVars, filterVars, analysisVars,
                   globalVars, rerunVars>>

Difference ==
    /\ op = "idle"
    /\ op' = "difference"
    /\ out' = difference(matrixA, matrixB)
    /\ UNCHANGED <<matrixA, matrixB, planVars, dataVars, loopVars, chainVars, normVars, filterVars, analysisVars,
                   globalVars, rerunVars>>

PiecewiseDivision ==
    /\ op = "idle"
    /\ op' = "piecewiseDivision"
    /\ out' = piecewiseDivision(matrixA, matrixB)
    /\ UNCHANGED <<matrixA, matrixB, planVars, dataVars, loopVars, chainVars, normVars, filterVars, analysisVars,
                   globalVars, rerunVars>>

NextMatrix ==
    \/ MatrixMult
    \/ Difference
    \/ PiecewiseDivision

SpecMatrix == InitMatrix /\ [][NextMatrix]_vars

(***************************************************************************)
(* A chain of two products, computed from the left and from the right.     *)
(***************************************************************************)
ChainCells == {0, 1, 2}

\* The complete matrices over exactly the given row and column keys, in every
\* key order.
KeyedMatrices(rowKeys, colKeys, cells) ==
    {MkObj(rs, [r \in ToSet(rs) |-> MkObj(cs, [c \in ToSet(cs) |-> Num(f[r][c])])]) :
        rs \in {q \in DistinctSeqs(rowKeys, Cardinality(rowKeys)) : ToSet(q) = rowKeys},
        cs \in {q \in DistinctSeqs(colKeys, Cardinality(colKeys)) : ToSet(q) = colKeys},
        f \in [rowKeys -> [colKeys -> cells]]}

InitChain ==
    /\ matrixA \in KeyedMatrices({"r"}, {"j", "k"}, ChainCells) \cup {EmptyObj}
    /\ matrixB \in KeyedMatrices({"j", "k"}, {"m", "n"}, ChainCells \ {0}) \cup {EmptyObj}
    /\ matrixC \in KeyedMatrices({"m", "n"}, {"c"}, ChainCells) \cup {EmptyObj}
    /\ op = "off"
    /\ out = Throw("none")
    /\ left = Throw("none")
    /\ right = Throw("none")
    /\ side = "idle"
    /\ PlanIdle
    /\ DataIdle
    /\ LoopIdle
    /\ NormIdle
    /\ FilterIdle
    /\ AnalysisIdle
    /\ RerunIdle
    /\ NoGlobal

\* matrix_mult(matrix_mult(A, B), C); a throw of the inner call ends the
\* expression.
MultFromLeft ==
    /\ side = "idle"
    /\ side' = "left"
    /\ left' = LET inner == matrix_mult(matrixA, matrixB)
               IN  IF inner.err # "none" THEN inner
                   ELSE matrix_mult(inner.value, matrixC)
    /\ UNCHANGED <<matrixC, right, planVars, matrixVars, dataVars, loopVars, normVars, filterVars, analysisVars,
                   globalVars, rerunVars>>

\* matrix_mult(A, matrix_mult(B, C)).
MultFromRight ==
    /\ side = "left"
    /\ side' = "both"
    /\ right' = LET inner == matrix_mult(matrixB, matrixC)
                IN  IF inner.err # "none" THEN inner
                    ELSE matrix_mult(matrixA, inner.value)
    /\ UNCHANGED <<matrixC, left, planVars, matrixVars, dataVars, loopVars, normVars, filterVars, analysisVars,
                   globalVars, rerunVars>>

NextChain ==
    \/ MultFromLeft
    \/ MultFromRight

SpecChain == InitChain /\ [][NextChain]_vars

(***************************************************************************)
(* createMatrix on its own, on a record set with the fields of the         *)
(* forecast records.                                                       *)
(***************************************************************************)
RecordSets ==
    SeqsUpTo({ForecastRec(i, p, q) : i \in {"a", "b"}, p \in {"p1", "p2"}, q \in {-1, 0, 2}},
             MaxRecords)

InitRecords ==
    /\ data \in RecordSets
    /\ z = Num(0)
    /\ fn = "idle"
    /\ ret = Throw("none")
    /\ PlanIdle
    /\ MatrixIdle
    /\ LoopIdle
    /\ ChainIdle
    /\ NormIdle
    /\ FilterIdle
    /\ AnalysisIdle
    /\ RerunIdle
    /\ NoGlobal

CreateMatrix ==
    /\ fn = "idle"
    /\ fn' = "createMatrix"
    /\ ret' = Ok(createMatrix(data, "item", "period", "forecast"))
    /\ globalResult' = Assigned(createMatrix(data, "item", "period", "forecast"))
    /\ UNCHANGED <<data, z, planVars, matrixVars, loopVars, chainVars, normVars, filterVars, analysisVars, rerunVars>>

NextRecords == CreateMatrix

SpecRecords == InitRecords /\ [][NextRecords]_vars

(***************************************************************************)
(* The loop of generateHorizontalPlan over the periods, for one item with  *)
(* given stock levels, one iteration at a time.                            *)
(***************************************************************************)
LoopPeriods == <<"p1", "p2", "p3", "p4", "p5", "p6">>

ScenarioForecast == <<6000, 6500, 5900, 6800, 9000, 9400>>

LoopForecasts ==
    {ScenarioForecast, <<9400, 9000, 6800, 5900, 6500, 6000>>, <<0, 0, 0, 0, 0, 0>>}

ForecastRow(quantities) ==
    MkObj(LoopPeriods, [p \in ToSet(LoopPeriods) |->
        Num(quantities[CHOOSE i \in 1..Len(LoopPeriods) : LoopPeriods[i] = p])])

LoopInputs ==
    {[forecastRow |-> ForecastRow(f), periods |-> LoopPeriods,
      currentInventory |-> Num(inv), safetyStock |-> Num(ss), cycleStock |-> Num(cs)] :
        f \in LoopForecasts, inv \in {13000, 0, -500}, ss \in {4800, 0}, cs \in {1386, 0}}

InitLoop ==
    /\ locals \in LoopInputs
    /\ planRows = [row \in PlanRows |-> EmptyObj]
    /\ done = 0
    /\ PlanIdle
    /\ MatrixIdle
    /\ DataIdle
    /\ ChainIdle
    /\ NormIdle
    /\ FilterIdle
    /\ AnalysisIdle
    /\ RerunIdle
    /\ globalResult = Assigned(MkObj(<<"a">>, [item \in {"a"} |-> locals.forecastRow]))

\* One iteration of "for(let i = 0; i < periods.length; i++)".
PlanNextPeriod ==
    /\ done < Len(locals.periods)
    /\ planRows' = PlanPeriod(planRows, locals.forecastRow, locals.periods,
                              locals.currentInventory, locals.safetyStock,
                              locals.cycleStock, done + 1)
    /\ done' = done + 1
    /\ UNCHANGED <<locals, planVars, matrixVars, dataVars, chainVars, normVars, filterVars, analysisVars,
                   globalVars, rerunVars>>

NextLoop == PlanNextPeriod

SpecLoop == InitLoop /\ [][NextLoop]_vars

(***************************************************************************)
(* stats.calc on its own, on a collection of records with one numeric      *)
(* column.                                                                 *)
(***************************************************************************)
RecordKeys == <<"r1", "r2", "r3", "r4", "r5", "r6">>

SampleValues == {-9, 0, 1, 9}

TrimmingSample == <<10, 10, 10, 10, 100>>

\* Average 0 and sample standard deviation 2: with z = 1 the value -3 is below
\* the lower limit and the value 2 is on the upper limit.
BoundarySample == <<-3, -1, 1, 1, 2>>

Collection(values) ==
    LET keys == SubSeq(RecordKeys, 1, Len(values))
    IN  MkObj(keys, [key \in ToSet(keys) |->
            [value |-> Num(values[CHOOSE i \in 1..Len(keys) : keys[i] = key])]])

Collections ==
    {Collection(values) : values \in
        SeqsUpTo(SampleValues, MaxSample) \cup {TrimmingSample, BoundarySample}}

ZScores == {Num(1), Num(3)}

InitStats ==
    /\ data \in Collections
    /\ z \in ZScores
    /\ fn = "idle"
    /\ ret = Throw("none")
    /\ PlanIdle
    /\ MatrixIdle
    /\ LoopIdle
    /\ ChainIdle
    /\ NormIdle
    /\ FilterIdle
    /\ AnalysisIdle
    /\ RerunIdle
    /\ NoGlobal

Calc ==
    /\ fn = "idle"
    /\ fn' = "calc"
    /\ ret' = calc(data, "value", z)
    /\ globalResult' = ResultAfterCalc(globalResult, data, calc(data, "value", z))
    /\ UNCHANGED <<data, z, planVars, matrixVars, loopVars, chainVars, normVars, filterVars, analysisVars, rerunVars>>

NextStats == Calc

SpecStats == InitStats /\ [][NextStats]_vars

(***************************************************************************)
(* normInverse on its own.                                                 *)
(***************************************************************************)
TableKeys == {zTable[k][1] : k \in 1..Len(zTable)}

\* The keys of the table, a half and a quarter of the way from every key to
\* the next, and the two ends 0 and 1, which lie outside the table.
Probabilities ==
    TableKeys
    \cup {zTable[k][1] + (zTable[k + 1][1] - zTable[k][1]) \div d :
             k \in 1..(Len(zTable) - 1), d \in {2, 4}}
    \cup {0, ProbabilityOne}

InitNorm ==
    /\ prob \in Probabilities
    /\ data = EmptyObj
    /\ z = Num(0)
    /\ fn = "idle"
    /\ ret = Throw("none")
    /\ PlanIdle
    /\ MatrixIdle
    /\ LoopIdle
    /\ ChainIdle
    /\ FilterIdle
    /\ AnalysisIdle
    /\ RerunIdle
    /\ NoGlobal

NormInverse ==
    /\ fn = "idle"
    /\ fn' = "normInverse"
    /\ ret' = Ok(normInverse(prob))
    /\ UNCHANGED <<data, z, prob, planVars, matrixVars, loopVars, chainVars, filterVars, analysisVars,
                   globalVars, rerunVars>>

NextNorm == NormInverse

SpecNorm == InitNorm /\ [][NextNorm]_vars

(***************************************************************************)
(* filter on its own, on a collection of records with one numeric field.   *)
(***************************************************************************)
FilterValues == {-1, 0, 2}

FilterCollections == {Collection(values) : values \in SeqsUpTo(FilterValues, MaxRecords)}

\* The comparison operators the function names, and two it does not.
Comparisons == {"==", ">", "<", "includes", ">=", "!="}

\* The value compared against: a number, or for "includes" an array of numbers.
Thresholds(cmp) ==
    IF cmp = "includes" THEN {Arr(<<>>), Arr(<<Num(0)>>), Arr(<<Num(2), Num(-1)>>)}
    ELSE {Num(0), Num(2)}

\* One criterion, on the field of the records or on a field they do not have.
Criteria(cmp) ==
    {MkObj(<<field>>, [f \in {field} |-> bound]) :
        field \in {"value", "other"}, bound \in Thresholds(cmp)}

InitFilter ==
    /\ data \in FilterCollections
    /\ comparison \in Comparisons
    /\ parameters \in Criteria(comparison)
    /\ z = Num(0)
    /\ fn = "idle"
    /\ ret = Throw("none")
    /\ PlanIdle
    /\ MatrixIdle
    /\ LoopIdle
    /\ ChainIdle
    /\ NormIdle
    /\ AnalysisIdle
    /\ RerunIdle
    /\ NoGlobal

Filter ==
    /\ fn = "idle"
    /\ fn' = "filter"
    /\ ret' = filter(data, parameters, comparison)
    /\ UNCHANGED <<data, z, parameters, comparison, planVars, matrixVars, loopVars,
                   chainVars, normVars, analysisVars, globalVars, rerunVars>>

NextFilter == Filter

SpecFilter == InitFilter /\ [][NextFilter]_vars

(***************************************************************************)
(* The safety stock analysis: the two sheets, then                         *)
(*   supplyStats = calcSupplyStats(...), demandStats = calcDemandStats(...) *)
(* and the loop that fills safetyStocks.  readExcel keys the rows of a     *)
(* sheet "2", "3", ... in row order, which is also the order in which an   *)
(* object lists such keys.                                                 *)
(***************************************************************************)
MaxCompletions == 3

RowKeys ==
    <<"2", "3", "4", "5", "6", "7", "8", "9", "10", "11", "12", "13", "14", "15",
      "16", "17", "18", "19", "20", "21", "22", "23", "24", "25">>

Sheet(records) ==
    LET keys == SubSeq(RowKeys, 1, Len(records))
    IN  MkObj(keys, [key \in ToSet(keys) |->
            records[CHOOSE i \in 1..Len(keys) : keys[i] = key]])

CompletionRec(org, qty, item, hours) ==
    [f \in {"Org", "Completed Qty", "Item Number", "Actual Completion"} |->
        CASE f = "Org" -> Str(org)
          [] f = "Completed Qty" -> Num(qty)
          [] f = "Item Number" -> Str(item)
          [] OTHER -> Num(hours)]

ShippingRec(org, item, qty) ==
    [f \in {"Org", "Item", "Shipped Qty"} |->
        CASE f = "Org" -> Str(org)
          [] f = "Item" -> Str(item)
          [] OTHER -> Num(qty)]

\* Completion records of item a: finished or not, of the analysed org or not,
\* at hour 0, a day later and two and a half days later.
CompletionOptions ==
    {CompletionRec(s[1], s[2], "a", h) :
        s \in {<<"OK", 5>>, <<"OK", 0>>, <<"XX", 5>>}, h \in {0, 24, 60}}

\* The completion hours that follow each other with the given gaps.
RECURSIVE CompletionHours(_)
CompletionHours(gaps) ==
    IF Len(gaps) = 0 THEN <<0>>
    ELSE The({Append(before, before[Len(before)] + gaps[Len(gaps)]) :
                 before \in {CompletionHours(SubSeq(gaps, 1, Len(gaps) - 1))}})

\* Eighteen completions of item a, in hours between one and the next: 2 and 3
\* days seven times over (once a day and a half for the 2), once 10 days, and
\* a same-day and a next-day completion.
LongGaps == <<48, 72, 0, 36, 72, 24, 48, 72, 48, 72, 240, 48, 72, 48, 72, 48, 72>>

LongProduction ==
    Sheet([i \in 1..(Len(LongGaps) + 1) |->
              CompletionRec("OK", 5, "a", CompletionHours(LongGaps)[i])])

\* Completions of the items a and b in alternating rows.
InterleavedProduction ==
    Sheet(<<CompletionRec("OK", 5, "a", 0), CompletionRec("OK", 5, "b", 0),
            CompletionRec("OK", 5, "a", 48), CompletionRec("OK", 5, "b", 24),
            CompletionRec("OK", 5, "a", 120), CompletionRec("OK", 5, "b", 96)>>)

ProductionSheets ==
    {Sheet(records) : records \in SeqsUpTo(CompletionOptions, MaxCompletions)}
    \cup {LongProduction, InterleavedProduction}

\* Twenty shipments of 4 and 6 units and one of 30.
LongShipping ==
    Sheet([i \in 1..21 |->
              ShippingRec("OK", "a", IF i = 21 THEN 30 ELSE IF i % 2 = 1 THEN 4 ELSE 6)])

ShippingSheets ==
    {Sheet(<<>>),
     Sheet(<<ShippingRec("OK", "a", 4), ShippingRec("OK", "a", 6),
             ShippingRec("OK", "a", 8)>>),
     Sheet(<<ShippingRec("OK", "a", 4), ShippingRec("XX", "a", 6),
             ShippingRec("OK", "b", 5), ShippingRec("OK", "b", 9)>>),
     Sheet(<<ShippingRec("OK", "b", 4), ShippingRec("OK", "b", 6)>>),
     LongShipping}

InitAnalysis ==
    /\ productionSheet \in ProductionSheets
    /\ shippingSheet \in ShippingSheets
    /\ performanceCycleTimes = EmptyObj
    /\ supplyStats = EmptyObj
    /\ demandStats = EmptyObj
    /\ safetyStocks = EmptyObj
    /\ stage = "start"
    /\ PlanIdle
    /\ MatrixIdle
    /\ DataIdle
    /\ LoopIdle
    /\ ChainIdle
    /\ NormIdle
    /\ FilterIdle
    /\ RerunIdle
    /\ NoGlobal

\* let supplyStats = calcSupplyStats(...)
CalcSupplyStats ==
    /\ stage = "start"
    /\ \E run \in {calcSupplyStats(productionSheet)} :
           /\ performanceCycleTimes' = run.performanceCycleTimes
           /\ supplyStats' = IF run.err = "none" THEN run.supplyStats ELSE supplyStats
           /\ stage' = IF run.err = "none" THEN "supply" ELSE "failedSupply"
           /\ globalResult' = run.global
    /\ UNCHANGED <<productionSheet, shippingSheet, demandStats, safetyStocks,
                   planVars, matrixVars, dataVars, loopVars, chainVars, normVars,
                   filterVars, rerunVars>>

\* let demandStats = calcDemandStats(...)
CalcDemandStats ==
    /\ stage = "supply"
    /\ \E run \in {calcDemandStats(shippingSheet)} :
           /\ demandStats' = IF run.err = "none" THEN run.value ELSE demandStats
           /\ stage' = IF run.err = "none" THEN "demand" ELSE "failedDemand"
           /\ globalResult' = run.global
    /\ UNCHANGED <<productionSheet, shippingSheet, performanceCycleTimes, supplyStats,
                   safetyStocks, planVars, matrixVars, dataVars, loopVars, chainVars,
                   normVars, filterVars, rerunVars>>

\* for (const item in supplyStats) { safetyStocks[item] = ... }
RecommendSafetyStocks ==
    /\ stage = "demand"
    /\ LET run == SafetyStocks(supplyStats, demandStats, Len(Keys(supplyStats)))
       IN  /\ safetyStocks' = run.value
           /\ stage' = IF run.err = "none" THEN "done" ELSE "failedStocks"
    /\ UNCHANGED <<productionSheet, shippingSheet, performanceCycleTimes, supplyStats,
                   demandStats, planVars, matrixVars, dataVars, loopVars, chainVars,
                   normVars, filterVars, globalVars, rerunVars>>

NextAnalysis ==
    \/ CalcSupplyStats
    \/ CalcDemandStats
    \/ RecommendSafetyStocks

SpecAnalysis == InitAnalysis /\ [][NextAnalysis]_vars

(***************************************************************************)
(* Properties of the loop over the periods.                                *)
(***************************************************************************)
\* The item of the scenario: 13000 on hand, safety stock 4800, cycle stock
\* 1386, forecast 6000, 6500, 5900, 6800, 9000, 9400.
Scenario ==
    /\ locals.currentInventory = Num(13000)
    /\ locals.safetyStock = Num(4800)
    /\ locals.cycleStock = Num(1386)
    /\ locals.forecastRow = ForecastRow(ScenarioForecast)

RowAt(row, i) == Get(planRows[row], locals.periods[i])

Contributing(item, period) ==
    {i \in 1..Len(data) : data[i].item = item /\ data[i].period = period}

\* The sum of the forecast field over the records with the given indices.
RECURSIVE SumOfRecords(_)
SumOfRecords(S) ==
    IF S = {} THEN 0
    ELSE LET i == CHOOSE j \in S : TRUE
         IN  data[i].forecast.n + SumOfRecords(S \ {i})

\* The sum of the cells of ret.value at the given <<row, column>> pairs.
RECURSIVE SumOfCells(_)
SumOfCells(S) ==
    IF S = {} THEN 0
    ELSE LET rc == CHOOSE x \in S : TRUE
         IN  Cell(ret.value, rc[1], rc[2]).n + SumOfCells(S \ {rc})

\* C11: createMatrix returns a complete matrix: its rows are the distinct
\* values of the row field, every row has exactly the distinct values of the
\* column field as columns, a cell without a contributing record is 0, every
\* cell is the sum of the value field over the records of its row and column,
\* and the cells add up to the sum of the value field over all records.
C11_MatrixCompleteAndSummed ==
    fn = "createMatrix" =>
        LET rowValues == {data[i].item : i \in 1..Len(data)}
            colValues == {data[i].period : i \in 1..Len(data)}
        IN  /\ ret.err = "none"
            /\ ToSet(Keys(ret.value)) = rowValues
            /\ Len(Keys(ret.value)) = Cardinality(rowValues)
            /\ \A r \in rowValues :
                  /\ ToSet(Keys(Get(ret.value, r))) = colValues
                  /\ Len(Keys(Get(ret.value, r))) = Cardinality(colValues)
                  /\ \A c \in colValues :
                        /\ Cell(ret.value, r, c) = Num(SumOfRecords(Contributing(r, c)))
                        /\ Contributing(r, c) = {} => Cell(ret.value, r, c) = Num(0)
            /\ SumOfCells(rowValues \X colValues) = SumOfRecords(1..Len(data))

\* A matrix with a cell fed by two records with a sum other than either, and a
\* cell of a declared row and column that no record feeds.
C11_Witness ==
    /\ fn = "createMatrix"
    /\ \E r \in ToSet(Keys(ret.value)) : \E c \in ToSet(Keys(Get(ret.value, r))) :
          /\ Cardinality(Contributing(r, c)) = 2
          /\ \A i \in Contributing(r, c) : Cell(ret.value, r, c) # data[i].forecast
    /\ \E r \in ToSet(Keys(ret.value)) : \E c \in ToSet(Keys(Get(ret.value, r))) :
          /\ Contributing(r, c) = {}
          /\ Cell(ret.value, r, c) = Num(0)

(***************************************************************************)
(* Properties of stats.calc.  The expected statistics are stated on the    *)
(* integers: for n values with sum S and sum of squares Q,                 *)
(*   n * (x - average) = n * x - S   and   n * (n - 1) * variance = n*Q - S^2 *)
(* so that  |x - average| > z * stdDev_s  iff                              *)
(*   (n * x - S)^2 * (n - 1) > z^2 * n * (n * Q - S^2).                    *)
(***************************************************************************)
UndefinedStatistic == "UndefinedStatistic"

\* calc has returned a statistics object.
Summarized == fn = "calc" /\ ret.err = "none"

RecordSet == ToSet(Keys(data))
ValueOf(key) == Get(data, key).value.n

RECURSIVE SumOver(_)
SumOver(S) ==
    IF S = {} THEN 0
    ELSE LET key == CHOOSE x \in S : TRUE
         IN  ValueOf(key) + SumOver(S \ {key})

RECURSIVE SumSqOver(_)
SumSqOver(S) ==
    IF S = {} THEN 0
    ELSE LET key == CHOOSE x \in S : TRUE
         IN  ValueOf(key) * ValueOf(key) + SumSqOver(S \ {key})

\* n * (value - average) over the records S.
Deviation(key, S) == Cardinality(S) * ValueOf(key) - SumOver(S)

\* n * (n - 1) * (sample variance) over the records S.
Spread(S) == Cardinality(S) * SumSqOver(S) - SumOver(S) * SumOver(S)

\* |value - average| > z * stdDev_s over the records S.
BeyondLimit(key, S) ==
    Deviation(key, S) * Deviation(key, S) * (Cardinality(S) - 1) >
        z.n * z.n * Cardinality(S) * Spread(S)

AboveUCL(key) == Deviation(key, RecordSet) > 0 /\ BeyondLimit(key, RecordSet)
BelowLCL(key) == Deviation(key, RecordSet) < 0 /\ BeyondLimit(key, RecordSet)
OnLimit(key) ==
    Deviation(key, RecordSet) * Deviation(key, RecordSet) * (Cardinality(RecordSet) - 1) =
        z.n * z.n * Cardinality(RecordSet) * Spread(RecordSet)

\* The average and the sample standard deviation of the records S.
AverageOver(S) == Frac(SumOver(S), Cardinality(S))
SampleStdDevOver(S) ==
    IF Cardinality(S) >= 2
    THEN JsSqrt(Frac(Spread(S), Cardinality(S) * (Cardinality(S) - 1)))
    ELSE NaN

Stat(name) == Get(ret.value, name)
Outliers == ToSet(Keys(Stat("outliers")))

\* C16: for a collection of at least two records, the limits are
\* average - z * stdDev_s and average + z * stdDev_s, the outliers are exactly
\* the records whose value is strictly below the lower or strictly above the
\* upper limit, and the outlier object maps each of their keys to its value.
C16_OutliersStrictlyOutsideLimits ==
    (fn = "calc" /\ Cardinality(RecordSet) >= 2) =>
        /\ ret.err = "none"
        /\ Stat("lcl") = Limit(AverageOver(RecordSet), JsNeg(z), SampleStdDevOver(RecordSet))
        /\ Stat("ucl") = Limit(AverageOver(RecordSet), z, SampleStdDevOver(RecordSet))
        /\ Outliers = {key \in RecordSet : AboveUCL(key) \/ BelowLCL(key)}
        /\ Len(Keys(Stat("outliers"))) = Cardinality(Outliers)
        /\ \A key \in Outliers : Get(Stat("outliers"), key) = Get(data, key).value

\* A summary with a flagged record below the lower limit and an unflagged
\* record on the upper limit.
C16_Witness ==
    /\ Summarized
    /\ \E key \in Outliers : BelowLCL(key)
    /\ \E key \in RecordSet :
          /\ OnLimit(key)
          /\ Deviation(key, RecordSet) > 0
          /\ key \notin Outliers

\* calc was applied to the values [10, 10, 10, 10, 100].
TrimmingCase == fn = "calc" /\ data = Collection(TrimmingSample)

\* C17, as stated: for the values [10, 10, 10, 10, 100] with z = 3 and limits
\* on the sample standard deviation, calc flags 100 as an outlier and reports
\* the adjusted average 10.
C17_TrimmingFlagsHundred ==
    (TrimmingCase /\ z = Num(3)) =>
        /\ ret.err = "none"
        /\ Outliers = {"r5"}
        /\ Get(Stat("outliers"), "r5") = Num(100)
        /\ Has(ret.value, "average_adj")
        /\ Stat("average_adj") = Num(10)

\* C17, amended: the values [10, 10, 10, 10, 100] have the average 28 and the
\* sample variance 1620, so the upper limit for z = 3 is 28 + 3 * sqrt(1620),
\* about 148.7: 100 is not flagged, there is no outlier and no adjusted
\* average.  For z = 1 the upper limit is about 68.2: 100 is the one outlier
\* and the adjusted average is 10.
C17_TrimmingNeedsSmallerZ ==
    TrimmingCase =>
        /\ ret.err = "none"
        /\ Stat("average") = Num(28)
        /\ Stat("stdDev_s") = JsSqrt(Num(1620))
        /\ Stat("ucl") = Limit(Num(28), z, JsSqrt(Num(1620)))
        /\ z = Num(3) =>
              /\ 3 * 3 * 1620 > (100 - 28) * (100 - 28)
              /\ Outliers = {}
              /\ ~Has(ret.value, "average_adj")
        /\ z = Num(1) =>
              /\ 1620 < (100 - 28) * (100 - 28)
              /\ Outliers = {"r5"}
              /\ Get(Stat("outliers"), "r5") = Num(100)
              /\ Stat("average_adj") = Num(10)

\* The summary of [10, 10, 10, 10, 100] for z = 3, without outlier.
C17_Witness ==
    /\ TrimmingCase
    /\ z = Num(3)
    /\ Summarized
    /\ Outliers = {}
    /\ Stat("max") = Num(100)

\* C18: calc reports average_adj and stdDev_adj if and only if there is an
\* outlier; they are the average and the sample standard deviation of exactly
\* the records that are not outliers of the one trimming pass.
C18_AdjustedOverTrimmedSet ==
    (fn = "calc" /\ RecordSet # {}) =>
        /\ ret.err = "none"
        /\ Has(ret.value, "average_adj") <=> Outliers # {}
        /\ Has(ret.value, "stdDev_adj") <=> Outliers # {}
        /\ Outliers # {} =>
              /\ Stat("average_adj") = AverageOver(RecordSet \ Outliers)
              /\ Stat("stdDev_adj") = SampleStdDevOver(RecordSet \ Outliers)

\* A summary with an outlier whose trimmed set has a record beyond the limits
\* of the trimmed set: a second pass would trim further.
C18_Witness ==
    /\ Summarized
    /\ Outliers # {}
    /\ Has(ret.value, "average_adj")
    /\ \E key \in RecordSet \ Outliers : BeyondLimit(key, RecordSet \ Outliers)

\* The smallest and the largest value of the collection.
Smallest == CHOOSE v \in {ValueOf(key) : key \in RecordSet} :
                \A key \in RecordSet : v <= ValueOf(key)
Largest == CHOOSE v \in {ValueOf(key) : key \in RecordSet} :
               \A key \in RecordSet : v >= ValueOf(key)

\* C19: for every collection with a record, of positive, zero or negative
\* numbers, calc returns count = the number of records, min = the smallest
\* value, max = the largest value and average = sum / count.
C19_CountMinMaxAverage ==
    (fn = "calc" /\ RecordSet # {}) =>
        /\ ret.err = "none"
        /\ Stat("count") = Num(Cardinality(RecordSet))
        /\ Stat("min") = Num(Smallest)
        /\ Stat("max") = Num(Largest)
        /\ Stat("average") = AverageOver(RecordSet)

\* C20: for a collection of at most one record calc raises an error, the
\* undefined sample standard deviation (an error of any kind is accepted
\* here); it returns no summary whose stdDev_s, lcl or ucl is NaN or 0.
C20_SmallSampleRaises ==
    (fn = "calc" /\ Cardinality(RecordSet) <= 1) =>
        /\ ret.err # "none"
        /\ ~(/\ ret.err = "none"
             /\ \E name \in {"stdDev_s", "lcl", "ucl"} :
                   Stat(name) \in {NaN, JsSqrt(Num(0)), Num(0)})

(***************************************************************************)
(* Properties of the horizontal plan.                                      *)
(***************************************************************************)
\* data.horizontalPlan has been assigned.
Planned == pc \in {"planned", "aggregated", "rated", "failedAgg", "failedRYG"}

PlannedItems == ToSet(Keys(horizontalPlan))
CalendarPeriods == ToSet(Keys(MDO.calendar))
PlanCell(item, row, period) == Get(Get(horizontalPlan, item)[row], period)

\* max(a, b) on the extended numbers: NaN when either argument is NaN.
JsMax(a, b) ==
    IF IsNaNLike(a) \/ IsNaNLike(b) THEN NaN
    ELSE IF JsLt(a, b) THEN b ELSE a

PlanRan == pc # "start" /\ pc # "off"

ItemSet == ToSet(Keys(MDO.items))

\* The forecast records of an item, by index.
ForecastOf(item) == {i \in 1..Len(MDO.forecast) : MDO.forecast[i].item = item}

\* The forecast quantity of an item in a period: the sum of the forecast
\* records of the pair among the given indices, 0 when there is none.
RECURSIVE ForecastQty(_, _, _)
ForecastQty(item, period, S) ==
    IF S = {} THEN 0
    ELSE LET i == CHOOSE j \in S : TRUE
         IN  (IF MDO.forecast[i].period = period THEN MDO.forecast[i].forecast.n ELSE 0)
                + ForecastQty(item, period, S \ {i})

NoReactiveItem == \A item \in ItemSet : Get(MDO.items, item).strategy \notin {Fast, Slow}

\* C12: for every item and every calendar period, Sales Forecast is the
\* forecast quantity of the item in the period, 0 when no forecast record
\* exists for the pair (a period of the calendar without forecast record, an
\* item without forecast record).  Stated for datasets without reactive items,
\* whose stock levels need no highest sales period.
C12_SalesForecastDefaultsToZero ==
    (PlanRan /\ NoReactiveItem) =>
        /\ Planned
        /\ \A item \in ItemSet : \A period \in CalendarPeriods :
              /\ Has(horizontalPlan, item)
              /\ PlanCell(item, "Sales Forecast", period) =
                     Num(ForecastQty(item, period, ForecastOf(item)))

\* The highest quantity among the forecast records of an item.
MaxQty(item) ==
    CHOOSE q \in {MDO.forecast[i].forecast.n : i \in ForecastOf(item)} :
        \A i \in ForecastOf(item) : MDO.forecast[i].forecast.n <= q

\* The period of the first forecast record of an item with its highest quantity.
MaxQtyPeriod(item) ==
    LET first == CHOOSE i \in ForecastOf(item) :
                    /\ MDO.forecast[i].forecast.n = MaxQty(item)
                    /\ \A j \in ForecastOf(item) :
                          MDO.forecast[j].forecast.n = MaxQty(item) => i <= j
    IN  MDO.forecast[first].period

\* round(n / d) for integers n >= 0 and d > 0, halves rounded up.
RoundDiv(n, d) == (2 * n + d) \div (2 * d)

\* round(maxPeriodForecast / calendar[maxPeriod].days * factor)
RunRateStock(item, factor) ==
    LET days == Get(MDO.calendar, MaxQtyPeriod(item)).days
    IN  RoundDiv(MaxQty(item) * factor * days.d, days.n)

ExpectedSafetyStock(item) ==
    LET strategy == Get(MDO.items, item).strategy
    IN  IF strategy = Fast THEN Num(RunRateStock(item, 8))
        ELSE IF strategy = Slow THEN Num(RunRateStock(item, 20))
        ELSE Num(0)

ExpectedCycleStock(item) ==
    LET rec == Get(MDO.items, item)
    IN  IF rec.strategy \in {Fast, Slow} THEN Num(RoundDiv(rec.FOQ.n, 2 * rec.FOQ.d))
        ELSE Num(0)

C14_PlanPerItemComplete ==
    PlanRan =>
        /\ Planned
        /\ Keys(horizontalPlan) = Keys(MDO.items)
        /\ \A item \in ItemSet :
              /\ DOMAIN Get(horizontalPlan, item) = PlanRows
              /\ \A row \in PlanRows :
                    /\ Keys(Get(horizontalPlan, item)[row]) = Keys(MDO.calendar)
                    /\ \A period \in CalendarPeriods : IsNum(PlanCell(item, row, period))

\* An item whose Sales Forecast is a number in every calendar period (its
\* current inventory and FOQ are numbers in every dataset).
NumericInputs(item) ==
    \A period \in CalendarPeriods : IsNum(PlanCell(item, "Sales Forecast", period))

ForecastPeriods(item) == {MDO.forecast[i].period : i \in ForecastOf(item)}

\* C30: for every item whose safety stock is sized from its forecast, the
\* maxPeriodForecast of the scan is the largest value of the item's Sales
\* Forecast row and maxPeriod is a period whose Sales Forecast is that value,
\* also when several forecast records of one (item, period) are summed into
\* the cell.
C30_MaxIsLargestSalesForecast ==
    Planned =>
        \A item \in PlannedItems :
            (/\ Get(MDO.items, item).strategy \in {Fast, Slow}
             /\ NumericInputs(item)
             /\ ForecastPeriods(item) \subseteq CalendarPeriods) =>
                LET scan == MaxScan(filterEq(MDO.forecast, "item", item))
                IN  /\ \A period \in CalendarPeriods :
                          ~JsLt(scan[1], PlanCell(item, "Sales Forecast", period))
                    /\ scan[2] \in CalendarPeriods
                    /\ PlanCell(item, "Sales Forecast", scan[2]) = scan[1]

(***************************************************************************)
(* Properties of the matrix operations.                                    *)
(***************************************************************************)
RowSet(m) == ToSet(Keys(m))
ColSet(m) == ToSet(FirstRowKeys(m))
NonEmpty(m) == HasFirstRow(m)

\* The dot product of row r of A and column c of B over the given keys, each
\* key selecting the cell of A and the cell of B.
RECURSIVE KeyedDot(_, _, _, _, _)
KeyedDot(A, B, r, c, keys) ==
    IF Len(keys) = 0 THEN Num(0)
    ELSE JsAdd(KeyedDot(A, B, r, c, Tail(keys)),
               JsMul(Cell(A, r, Head(keys)), Cell(B, Head(keys), c)))

\* C4: when the column keys of A and the row keys of B are the same set, in
\* whatever order, matrix_mult(A, B) has A's row keys and B's column keys and
\* every cell is the sum over the shared keys k of A[r][k] * B[k][c].
C4_MultPairsByKey ==
    (op = "matrix_mult" /\ NonEmpty(matrixA) /\ NonEmpty(matrixB)
        /\ ColSet(matrixA) = RowSet(matrixB)) =>
        /\ out.err = "none"
        /\ RowSet(out.value) = RowSet(matrixA)
        /\ \A r \in RowSet(out.value) :
              /\ ToSet(Keys(Get(out.value, r))) = ColSet(matrixB)
              /\ \A c \in ColSet(matrixB) :
                    Cell(out.value, r, c) =
                        KeyedDot(matrixA, matrixB, r, c, FirstRowKeys(matrixA))

\* C8: difference and piecewiseDivision fail with the dimension error whenever
\* the row-key sets or the column-key sets of A and B differ, also when the
\* sets have the same size; they return no result then.
C8_PiecewiseRejectsKeyMismatch ==
    (op \in {"difference", "piecewiseDivision"}
        /\ NonEmpty(matrixA) /\ NonEmpty(matrixB)
        /\ ColSet(matrixA) # {} /\ ColSet(matrixB) # {}
        /\ (RowSet(matrixA) # RowSet(matrixB) \/ ColSet(matrixA) # ColSet(matrixB))) =>
        out.err = DimensionError

\* C9: matrix_mult fails with the dimension error, and returns no product,
\* whenever the number of column keys of A differs from the number of row keys
\* of B.
C9_MultRejectsSizeMismatch ==
    (op = "matrix_mult" /\ NonEmpty(matrixA)
        /\ Len(FirstRowKeys(matrixA)) # Len(Keys(matrixB))) =>
        out.err = DimensionError

\* The column keys of a complete matrix; a matrix without rows has none.
ColumnKeys(m) == IF NonEmpty(m) THEN ColSet(m) ELSE {}

\* A and B have the keys the operation pairs: the same rows and columns for the
\* piecewise operations, the columns of A as the rows of B for the product.
KeyConformant ==
    \/ /\ op \in {"difference", "piecewiseDivision"}
       /\ RowSet(matrixA) = RowSet(matrixB)
       /\ ColumnKeys(matrixA) = ColumnKeys(matrixB)
    \/ /\ op = "matrix_mult"
       /\ ColumnKeys(matrixA) = RowSet(matrixB)

\* C28: every matrix operation returns a result, without failing, for all
\* complete key-conformant matrices with zero or more rows and columns, the
\* matrix without rows included.
C28_TotalOnConformantMatrices ==
    KeyConformant => out.err = "none"

\* The keys of the chain fit: the columns of A are the rows of B and the
\* columns of B are the rows of C.
ChainConformant ==
    /\ ColumnKeys(matrixA) = RowSet(matrixB)
    /\ ColumnKeys(matrixB) = RowSet(matrixC)

\* C25: matrix_mult is associative: for complete integer matrices A, B, C with
\* the column keys of A equal to the row keys of B and the column keys of B
\* equal to the row keys of C, matrix_mult(matrix_mult(A, B), C) and
\* matrix_mult(A, matrix_mult(B, C)) have the same outcome, and when they
\* return, the same rows, the same columns and the same value in every cell.
C25_MultAssociative ==
    (side = "both" /\ ChainConformant) =>
        /\ left.err = right.err
        /\ RowSet(left.value) = RowSet(right.value)
        /\ \A r \in RowSet(left.value) :
              /\ ToSet(Keys(Get(left.value, r))) = ToSet(Keys(Get(right.value, r)))
              /\ \A c \in ToSet(Keys(Get(left.value, r))) :
                    Cell(left.value, r, c) = Cell(right.value, r, c)
        /\ (NonEmpty(matrixA) /\ NonEmpty(matrixB) /\ NonEmpty(matrixC)) =>
              left.err = "none"

\* Both products of a chain of three matrices with rows, the keys of B listed
\* in another order than the columns of A, and a cell above 8 in the result.
C25_Witness ==
    /\ side = "both"
    /\ ChainConformant
    /\ NonEmpty(matrixA) /\ NonEmpty(matrixB) /\ NonEmpty(matrixC)
    /\ FirstRowKeys(matrixA) # Keys(matrixB)
    /\ left.err = "none"
    /\ right.err = "none"
    /\ left.value = right.value
    /\ \E r \in RowSet(left.value) : \E c \in ToSet(Keys(Get(left.value, r))) :
          JsGt(Cell(left.value, r, c), Num(8))

(***************************************************************************)
(* Properties of the aggregate requirements and of the utilization.        *)
(***************************************************************************)
\* data.aggRequirements has been assigned.
Aggregated == pc \in {"aggregated", "rated", "failedRYG"}
\* calculateAggRequirements has run.
AggregateRan == Aggregated \/ pc = "failedAgg"
\* calculateRYG has run.
RatingRan == pc \in {"rated", "failedRYG"}

RequirementItems == {MDO.requirements[i].item : i \in 1..Len(MDO.requirements)}
RequirementResources == {MDO.requirements[i].resource : i \in 1..Len(MDO.requirements)}
ConstraintResources == {MDO.constraints[i].resource : i \in 1..Len(MDO.constraints)}
ConstraintPeriods == {MDO.constraints[i].period : i \in 1..Len(MDO.constraints)}

\* Hours of a resource per unit of an item: the requirement records of the
\* pair, summed.
HoursPerUnit(resource, item) ==
    CellSum(MDO.requirements, "resource", "item", "requirement", resource, item)

\* Available hours of a resource in a period: the constraint records of the
\* pair, summed.
Capacity(resource, period) ==
    CellSum(MDO.constraints, "resource", "period", "constraint", resource, period)

\* The load of a resource in a period summed over the given items.
RECURSIVE LoadOver(_, _, _)
LoadOver(items, resource, period) ==
    IF Len(items) = 0 THEN Num(0)
    ELSE JsAdd(LoadOver(Tail(items), resource, period),
               JsMul(HoursPerUnit(resource, Head(items)),
                     PlanCell(Head(items), "Production Plan", period)))

\* C5: the aggregate requirements have a row per resource of the requirement
\* records, and cell [r][p] is the sum over the items of (hours of r per unit
\* of the item) * (Production Plan of the item in p), for every order of the
\* requirement records and of the items table.
C5_AggregateIsHoursTimesProduction ==
    (Aggregated /\ RequirementItems \subseteq ItemSet) =>
        /\ RowSet(aggRequirements) = RequirementResources
        /\ \A r \in RequirementResources : \A p \in CalendarPeriods :
              Cell(aggRequirements, r, p) = LoadOver(Keys(MDO.items), r, p)

\* C6: the RYG matrix has exactly the resources of the constraint records as
\* rows, and cell [r][p] is the aggregate load [r][p] divided by the capacity
\* of the same resource and period; a load of 110 on a capacity of 100 is 1.1.
C6_RatioOfLoadToCapacity ==
    pc = "rated" =>
        /\ RowSet(RYG) = ConstraintResources
        /\ \A r \in RowSet(RYG) :
              /\ ToSet(Keys(Get(RYG, r))) = CalendarPeriods
              /\ \A p \in CalendarPeriods \cap ConstraintPeriods :
                    /\ Cell(RYG, r, p) =
                          JsDiv(Cell(aggRequirements, r, p), Capacity(r, p))
                    /\ (Cell(aggRequirements, r, p) = Num(110)
                           /\ Capacity(r, p) = Num(100)) =>
                          Cell(RYG, r, p) = Frac(11, 10)

\* A rated run in which a resource with load is left out for want of a
\* constraint record, and a load of 110 on a capacity of 100 gives 1.1.
C6_Witness ==
    /\ pc = "rated"
    /\ \E r \in RowSet(aggRequirements) : r \notin RowSet(RYG)
    /\ \E r \in RowSet(RYG) : \E p \in CalendarPeriods :
          /\ Cell(aggRequirements, r, p) = Num(110)
          /\ Capacity(r, p) = Num(100)
          /\ Cell(RYG, r, p) = Frac(11, 10)

\* The constraints matrix and the restricted load have the same keys.
Conformant ==
    /\ ConstraintResources \subseteq RowSet(aggRequirements)
    /\ ConstraintPeriods = CalendarPeriods

ZeroCapacity ==
    \E r \in ConstraintResources : \E p \in ConstraintPeriods :
        Capacity(r, p) = Num(0)

NoInfinityOrNaN(m) ==
    \A r \in RowSet(m) : \A c \in ToSet(Keys(Get(m, r))) : IsNum(Cell(m, r, c))

\* C7: when a constrained resource has capacity 0 in some period, calculateRYG
\* raises UndefinedStatistic; it never returns Infinity or NaN.
C7_ZeroCapacityRaises ==
    (RatingRan /\ Conformant /\ ZeroCapacity) =>
        /\ pc = "failedRYG"
        /\ failure = UndefinedStatistic
        /\ NoInfinityOrNaN(RYG)

\* C10: calculateAggRequirements fails with the dimension error whenever an
\* item of the requirement records is not an item of the dataset.
C10_ForeignItemRejected ==
    (AggregateRan /\ ~(RequirementItems \subseteq ItemSet)) =>
        /\ pc = "failedAgg"
        /\ failure = DimensionError

(***************************************************************************)
(* Properties of normInverse.                                              *)
(***************************************************************************)
\* The tabulated z-score of a key of the table.
Tabulated(key) == Frac(zTable[CHOOSE k \in 1..Len(zTable) : zTable[k][1] = key][2], 100)

\* p lies between the smallest and the largest key of the table.
InTableRange == prob >= 1 /\ prob <= ProbabilityOne - 1

KeyBelow == CHOOSE key \in TableKeys :
                key < prob /\ \A other \in TableKeys : other < prob => other <= key
KeyAbove == CHOOSE key \in TableKeys :
                key > prob /\ \A other \in TableKeys : other > prob => other >= key

\* The point of the segment from (KeyBelow, its z) to (KeyAbove, its z) at p,
\* as the mean of the two z-scores weighted by the distances to the other key.
Interpolated ==
    JsAdd(JsMul(Tabulated(KeyBelow), Frac(KeyAbove - prob, KeyAbove - KeyBelow)),
          JsMul(Tabulated(KeyAbove), Frac(prob - KeyBelow, KeyAbove - KeyBelow)))

\* C21: for p from 1e-9 to 1 - 1e-9, normInverse(p) is the tabulated z-score
\* when p is a key of the table (0.00 for 0.5, 2.17 for 0.985), and otherwise
\* the linear interpolation between the nearest key below p and the nearest
\* key above p.
C21_TableOrInterpolation ==
    (fn = "normInverse" /\ InTableRange) =>
        /\ ret.err = "none"
        /\ prob \in TableKeys => ret.value = Tabulated(prob)
        /\ prob \notin TableKeys => ret.value = Interpolated
        /\ prob = 500000000 => ret.value = Num(0)
        /\ prob = 985000000 => ret.value = Frac(217, 100)

\* normInverse applied to a probability a quarter of the way from 0.98 to
\* 0.985: the result lies strictly between 2.05 and 2.17.
C21_Witness ==
    /\ fn = "normInverse"
    /\ InTableRange
    /\ prob \notin TableKeys
    /\ KeyBelow = 980000000
    /\ KeyAbove = 985000000
    /\ ret.value = Frac(208, 100)

(***************************************************************************)
(* Properties of filter.                                                   *)
(***************************************************************************)
CriterionField == Keys(parameters)[1]
CriterionValue == Get(parameters, CriterionField)

\* The field of the record satisfies the comparison against the value.
Satisfies(rec) ==
    LET v == Field(rec, CriterionField)
    IN  CASE comparison = "==" -> v = CriterionValue
          [] comparison = ">" -> JsGt(v, CriterionValue)
          [] comparison = "<" -> JsLt(v, CriterionValue)
          [] OTHER -> v \in ToSet(CriterionValue.n)

\* C22: for "==", ">", "<" and "includes" over a single field, filter returns
\* exactly the records whose field satisfies the comparison against the value,
\* under their original keys and with unchanged contents; for any other
\* comparison operator it raises an error and returns no result.
C22_FilterSelectsMatching ==
    fn = "filter" =>
        IF comparison \in {"==", ">", "<", "includes"}
        THEN /\ ret.err = "none"
             /\ ToSet(Keys(ret.value)) =
                   {key \in ToSet(Keys(data)) : Satisfies(Get(data, key))}
             /\ \A key \in ToSet(Keys(ret.value)) :
                   Get(ret.value, key) = Get(data, key)
        ELSE ret.err # "none"

(***************************************************************************)
(* Properties of the safety stock analysis.                                *)
(***************************************************************************)
SupplyRan == stage \notin {"off", "start"}

\* The rows of the Production sheet with the completions of the item that
\* calcSupplyStats looks at: org OK and a completed quantity above 0.
CompletionRows(item) ==
    SelectSeq(Keys(productionSheet), LAMBDA key :
        /\ Get(productionSheet, key)["Org"] = Str("OK")
        /\ Get(productionSheet, key)["Completed Qty"].n > 0
        /\ Get(productionSheet, key)["Item Number"] = Str(item))

CompletionHour(key) == Get(productionSheet, key)["Actual Completion"].n

\* The gap between the completion in rows[j - 1] and the one in rows[j], in
\* whole days: the hours between them, rounded to the nearest day.
GapDays(rows, j) ==
    (2 * (CompletionHour(rows[j]) - CompletionHour(rows[j - 1])) + HoursPerDay)
        \div (2 * HoursPerDay)

CycleTimeOf(item, key) == Get(Get(performanceCycleTimes, item), key)["Performance Cycle Time"]

\* C24: in calcSupplyStats, for every item and every pair of consecutive
\* completion records, the gap in days between the two completion dates is in
\* the item's cycle-time sample if and only if it exceeds 1 day; gaps of 0 or
\* 1 day are left out, and the sample holds no other values.
C24_SampleIsGapsAboveOneDay ==
    SupplyRan =>
        \A item \in ToSet(Keys(performanceCycleTimes)) :
            LET rows == CompletionRows(item)
                sample == Get(performanceCycleTimes, item)
            IN  /\ ToSet(Keys(sample)) \subseteq {rows[j] : j \in 2..Len(rows)}
                /\ \A j \in 2..Len(rows) :
                      /\ Has(sample, rows[j]) <=> GapDays(rows, j) > 1
                      /\ GapDays(rows, j) \in {0, 1} => ~Has(sample, rows[j])
                      /\ Has(sample, rows[j]) =>
                            CycleTimeOf(item, rows[j]) = Num(GapDays(rows, j))

\* The sample of an item with a same-day completion and a next-day completion,
\* both left out, and a completion a day and a half after the one before,
\* which is in the sample as 2 days.
C24_Witness ==
    /\ stage = "supply"
    /\ \E item \in ToSet(Keys(performanceCycleTimes)) :
          LET rows == CompletionRows(item)
              sample == Get(performanceCycleTimes, item)
          IN  /\ \E j \in 2..Len(rows) :
                    CompletionHour(rows[j]) = CompletionHour(rows[j - 1])
                    /\ ~Has(sample, rows[j])
              /\ \E j \in 2..Len(rows) :
                    CompletionHour(rows[j]) - CompletionHour(rows[j - 1]) = HoursPerDay
                    /\ ~Has(sample, rows[j])
              /\ \E j \in 2..Len(rows) :
                    CompletionHour(rows[j]) - CompletionHour(rows[j - 1]) = 36
                    /\ Has(sample, rows[j])
                    /\ CycleTimeOf(item, rows[j]) = Num(2)

\* A statistic of a summary over the records that are no outliers: the
\* adjusted one when outliers were found, the plain one otherwise.
Retained(summary, key, adjusted) ==
    IF Has(summary, adjusted) THEN Get(summary, adjusted) ELSE Get(summary, key)

IsDefinedNumber(v) == v.k \in {"num", "sqrt", "surd"}

HasOutliers(summary) == Len(Keys(Get(summary, "outliers"))) > 0

\* z * sqrt(demandComponent^2 + supplyComponent^2) with
\* demandComponent^2 = averageSupplyTime * stdDevOfDemand^2 and
\* supplyComponent = averageDemand * stdDevOfSupplyTime.
Recommended(supplySummary, demandSummary) ==
    LET averageSupplyTime == Retained(supplySummary, "average", "average_adj")
        stdDevOfSupplyTime == Retained(supplySummary, "stdDev_s", "stdDev_adj")
        averageDemand == Retained(demandSummary, "average", "average_adj")
        stdDevOfDemand == Retained(demandSummary, "stdDev_s", "stdDev_adj")
    IN  IF stdDevOfSupplyTime.k = "sqrt" /\ stdDevOfDemand.k = "sqrt"
        THEN [k |-> "surd", a |-> Num(0), b |-> Frac(217, 100),
              r |-> JsAdd(JsMul(averageSupplyTime,
                                Frac(stdDevOfDemand.n, stdDevOfDemand.d)),
                          JsMul(JsMul(averageDemand, averageDemand),
                                Frac(stdDevOfSupplyTime.n, stdDevOfSupplyTime.d)))]
        ELSE NaN

\* C23: for every item with a supply and a demand summary, the recommended
\* safety stock is z * sqrt(demandComponent^2 + supplyComponent^2) with
\* z = normInverse(service level), and it is a defined number whether or not
\* either summary holds outliers.
C23_RecommendationDefined ==
    stage = "done" =>
        \A item \in ToSet(Keys(safetyStocks)) :
            /\ IsDefinedNumber(Get(safetyStocks, item).recommendation)
            /\ Get(safetyStocks, item).recommendation =
                   Recommended(Get(supplyStats, item), Get(demandStats, item))

(***************************************************************************)
(* Properties of the calls as a whole: what they leave behind.             *)
(***************************************************************************)
\* C27: every matrix operation and createMatrix leaves its argument matrices
\* and record sets unchanged and writes no state that outlives the call: no
\* step changes an operand, the record set or the global variable result.
C27_OperationsArePure ==
    [][UNCHANGED <<matrixA, matrixB, matrixC, data, globalResult>>]_vars

====
